---- MODULE Spec2Model ----
(***************************************************************************)
(* Holex-Beast orchestration core: the LLM router (core/llm/router.py) and *)
(* the tool-calling agent (core/agent/agent.py).                           *)
(*                                                                         *)
(* SpecRouter: one Router.generate / Router.stream call at a time, one     *)
(*             step per candidate provider (each provider call is an       *)
(*             await, the provider's outcome is the environment's choice). *)
(* SpecAgent : agent turns (process, stream_process, process_with_image),  *)
(*             one step per await of the turn's coroutine.                 *)
(* SpecTurn  : process / process_with_image turns whose Router.generate    *)
(*             calls run through the router step by step.                  *)
(* SpecClassify: classify_query applied to texts drawn from a vocabulary.  *)
(***************************************************************************)
EXTENDS Integers, Sequences, FiniteSets, TLC

VARIABLES
    \* ---- LLMRouter ----
    settings,          \* AppSettings: default_provider, fallback_provider
    providers,         \* LLMRouter._providers (the initialized adapters' names)
    failover_order,    \* LLMRouter._failover_order
    current_provider,  \* LLMRouter._current_provider
    current_model,     \* LLMRouter._current_model
    ipc,               \* position of initialize(): the provider it is at / order / done
    admin,             \* switch_provider, switch_model and shutdown calls made
    changed,           \* the last LLM_PROVIDER_CHANGED / LLM_MODEL_CHANGED notification
    rpc,               \* position of the router call: idle / trying / returned / raised
    call,              \* the call in flight: kind, provider, model, messages, auto_route
    providers_to_try,  \* local providers_to_try of generate / stream
    idx,               \* position of the for loop in providers_to_try (1-based)
    errors,            \* local errors of generate
    invoked,           \* provider calls made by this router call, in order
    result,            \* what the call returned or raised
    chunks,            \* chunks the caller of stream has received, in order
    sfinal,            \* the provider stream in progress has yielded its final chunk
    bus,               \* notifications emitted by this router call, in order
    \* ---- HolexAgent ----
    history,           \* HolexAgent._history
    appended,          \* every message appended to _history since it was last empty
    apc,               \* position of the agent turn
    turn,              \* the turn in flight: kind, script, rag
    messages,          \* local messages (the outbound list) of the turn
    iteration,         \* loop variable of the tool loop
    gen_calls,         \* Router.generate calls made by this turn
    tool_calls,        \* tool calls of the current iteration (after normalization)
    results,           \* gather's result slots, by position
    pending,           \* positions whose tool execution has not completed
    completed,         \* positions in the order their executions completed
    full_response,     \* stream_process: text accumulated from the stream
    forwarded,         \* stream_process: what the caller has been yielded
    outcome,           \* how the turn ended
    turns,             \* turns started so far
    outbound,          \* the Router.generate calls of the turn, in order
    reply,             \* the text the turn returned
    tools,             \* HolexAgent._tools: the registered tools, by name
    \* ---- classify_query ----
    query,             \* the arguments of the last classify_query call
    tier,              \* what it returned
    \* ---- provider adapters' stream ----
    sresp,             \* the HTTP response the adapter reads: provider, status, lines
    sline,             \* the line of the response body the generator is at (1-based)
    sk,                \* yields of the current pass the generator has reached
    syielded,          \* chunks the adapter's stream has yielded, in order
    spc,               \* position of the stream: idle / reading / suspended at a
                       \* yield / completed / closed by the consumer / raised
    \* ---- EventBus ----
    handlers,          \* EventBus._handlers: per event type, the (handler, once) entries
    middleware,        \* EventBus._middleware
    bus_history,       \* EventBus._history (the event types)
    emits,             \* per thread, the frame of its emit call
    nsubs,             \* on and once calls made
    \* ---- ConversationManager ----
    conversations,     \* ConversationManager._conversations, in insertion order
    active_id,         \* ConversationManager._active_id
    last_op,           \* the manager's last operation and what it returned
    restored,          \* the last from_dict(to_dict(c)) and its c
    \* ---- timer_alarm ----
    active_timers,     \* _active_timers: timer id -> label and seconds
    timer_calls,       \* the set_timer / set_alarm calls that stored their entry and
                       \* have yet to start their thread
    timer_threads,     \* the _timer_thread threads started, each with its position
    notifications,     \* the labels _notify was called with, in order
    now,               \* int(time.time())
    timer_result       \* the output or error of the tool's last action

rvars == <<settings, providers, failover_order, current_provider, current_model,
           ipc, admin, changed,
           rpc, call, providers_to_try, idx, errors, invoked, result, chunks,
           sfinal, bus>>
avars == <<history, appended, apc, turn, messages, iteration, gen_calls, tool_calls,
           results, pending, completed, full_response, forwarded, outcome,
           turns, outbound, reply, tools>>
cvars == <<query, tier>>
svars == <<sresp, sline, sk, syielded, spc>>
evars == <<handlers, middleware, bus_history, emits, nsubs>>
mvars == <<conversations, active_id, last_op, restored>>
tvars == <<active_timers, timer_calls, timer_threads, notifications, now, timer_result>>
xvars == <<svars, evars, mvars, tvars>>
vars == <<rvars, avars, cvars, xvars>>

None == "None"

(***************************************************************************)
(* Bounds of the model                                                     *)
(***************************************************************************)
MaxChunks == 1      \* content chunks one stream call delivers at most
MaxHistory == 2     \* HolexAgent._max_history, scaled down (50 in the source)
MaxTurns == 2       \* agent turns per behaviour
MaxToolCalls == 2   \* tool calls the model requests in one response
MaxWords == 2       \* fragments of a text handed to classify_query
MaxForward == 2     \* content chunks Router.stream yields to stream_process
MaxLines == 2       \* lines of a response body a provider's stream reads
MaxSubs == 2        \* on / once calls on an EventBus
MaxEmits == 2       \* events an EventBus delivers
MaxMiddleware == 1  \* middleware installed on an EventBus
MaxConversations == 2   \* conversations a ConversationManager stores
MaxMessages == 2    \* messages of a stored conversation
MaxTimers == 2      \* timers and alarms set
MaxClock == 1       \* seconds the clock advances
MaxAdmin == 1       \* switch_provider, switch_model and shutdown calls on a router

(***************************************************************************)
(* Query classification (router.py:38-156)                                 *)
(* A text is a sequence of space-separated fragments drawn from a small    *)
(* vocabulary; each fragment stands for itself, "lorem600" for a generic   *)
(* filler of 600 characters without any keyword, "blank600" for a run of   *)
(* 600 whitespace characters.                                              *)
(***************************************************************************)
Vocabulary == {"hello", "search", "compare", "photo", "translate", "chat", "lorem600"}
Whitespace == {"blank600"}

CharLen(w) == CASE w = "hello" -> 5 [] w = "search" -> 6 [] w = "compare" -> 7
                [] w = "photo" -> 5 [] w = "translate" -> 9 [] w = "chat" -> 4
                [] w = "lorem600" -> 600 [] w = "blank600" -> 600
                [] OTHER -> 1

RECURSIVE TextLen(_)
TextLen(t) == IF t = <<>> THEN 0
              ELSE CharLen(Head(t)) + (IF Len(t) > 1 THEN 1 ELSE 0) + TextLen(Tail(t))

VisionWords == {"photo"}
GreetingWords == {"hello"}
ToolWords == {"search", "translate"}
ComplexWords == {"compare", "translate"}

HasWord(t, ws) == \E i \in 1..Len(t) : t[i] \in ws

VISION_PATTERNS(t) == HasWord(t, VisionWords)
SIMPLE_PATTERNS(t) == Len(t) = 1 /\ t[1] \in GreetingWords
TOOL_PATTERNS(t) == HasWord(t, ToolWords)
COMPLEX_PATTERNS(t) == HasWord(t, ComplexWords)

\* str.strip(): leading and trailing whitespace removed
RECURSIVE LStrip(_)
LStrip(t) == IF t # <<>> /\ Head(t) \in Whitespace THEN LStrip(Tail(t)) ELSE t
RECURSIVE RStrip(_)
RStrip(t) == IF t # <<>> /\ t[Len(t)] \in Whitespace
             THEN RStrip(SubSeq(t, 1, Len(t) - 1)) ELSE t
strip(t) == RStrip(LStrip(t))

Tiers == {"vision", "simple", "tool", "complex", "normal"}

\* the decision list with the complex test ahead of the tool test
classify_query_complex_first(text, has_image) ==
    LET t == strip(text) IN
    IF has_image \/ VISION_PATTERNS(t) THEN "vision"
    ELSE IF SIMPLE_PATTERNS(t) THEN "simple"
    ELSE IF COMPLEX_PATTERNS(t) THEN "complex"
    ELSE IF TOOL_PATTERNS(t) THEN "tool"
    ELSE IF TextLen(t) > 500 THEN "complex"
    ELSE "normal"

classify_query(text, has_image) ==
    LET t == strip(text) IN
    IF has_image \/ VISION_PATTERNS(t) THEN "vision"
    ELSE IF SIMPLE_PATTERNS(t) THEN "simple"
    ELSE IF TOOL_PATTERNS(t) THEN "tool"
    ELSE IF COMPLEX_PATTERNS(t) THEN "complex"
    ELSE IF TextLen(t) > 500 THEN "complex"
    ELSE "normal"

\* the texts classify_query is applied to
Texts == UNION {[1..n -> Vocabulary \cup Whitespace] : n \in 0..MaxWords}

NoQuery == [text |-> <<>>, has_image |-> FALSE, asked |-> FALSE]

ClassifyInit ==
    /\ query = NoQuery
    /\ tier = None

\* router.py:129-156: one call of classify_query
Classify(text, has_image) ==
    /\ query' = [text |-> text, has_image |-> has_image, asked |-> TRUE]
    /\ tier' = classify_query(text, has_image)
    /\ UNCHANGED <<rvars, avars, xvars>>

TIER_MODELS ==
    [simple  |-> [groq |-> "llama-3.1-8b-instant", gemini |-> "gemini-2.5-flash",
                  ollama |-> "llama3.2:3b"],
     tool    |-> [groq |-> "moonshotai/kimi-k2-instruct", gemini |-> "gemini-2.5-flash",
                  ollama |-> "llama3.2:3b"],
     complex |-> [groq |-> "moonshotai/kimi-k2-instruct-0905", gemini |-> "gemini-2.5-pro",
                  ollama |-> "llama3.1:8b"],
     normal  |-> [groq |-> "moonshotai/kimi-k2-instruct", gemini |-> "gemini-2.5-flash",
                  ollama |-> "llama3.2:3b"],
     vision  |-> [groq |-> "meta-llama/llama-4-scout-17b-16e-instruct",
                  gemini |-> "gemini-2.5-flash", ollama |-> "llama3.2:3b"]]

ProviderNames == {"groq", "gemini", "ollama"}
all_providers == <<"groq", "gemini", "ollama">>

get_default_model(provider) ==
    CASE provider = "groq" -> "moonshotai/kimi-k2-instruct"
      [] provider = "gemini" -> "gemini-2.5-flash"
      [] provider = "ollama" -> "llama3.2:3b"
      [] OTHER -> ""

(***************************************************************************)
(* Messages (llm/base.py:18-64).  content is a text (str) or a list of     *)
(* parts; is_list tells which of the two the message carries.              *)
(***************************************************************************)
TextPart(t) == [type |-> "text", text |-> t]
ImagePart == [type |-> "image_url", text |-> <<>>]

Message(role, str, is_list, parts) ==
    [role |-> role, str |-> str, is_list |-> is_list, parts |-> parts,
     name |-> None, tool_calls |-> <<>>, tool_call_id |-> <<>>]
Message_system == Message("system", <<"system prompt">>, FALSE, <<>>)
Message_user(t) == Message("user", t, FALSE, <<>>)
Message_user_with_image(t) == Message("user", <<>>, TRUE, <<TextPart(t), ImagePart>>)
Message_user_parts(ps) == Message("user", <<>>, TRUE, ps)
Message_assistant(t) == Message("assistant", t, FALSE, <<>>)
Message_tool(t, name, tool_call_id) ==
    [Message("tool", t, FALSE, <<>>) EXCEPT !.name = name, !.tool_call_id = tool_call_id]

RECURSIVE LastUserIdx(_, _)
LastUserIdx(msgs, i) ==
    IF i = 0 THEN 0
    ELSE IF msgs[i].role = "user" THEN i
    ELSE LastUserIdx(msgs, i - 1)

RECURSIVE JoinTextParts(_)
JoinTextParts(ps) ==
    IF ps = <<>> THEN <<>>
    ELSE (IF Head(ps).type = "text" THEN Head(ps).text ELSE <<>>) \o JoinTextParts(Tail(ps))

\* router.py:309-325: user_text and has_image of the latest User message
RouteUserText(msgs) ==
    LET i == LastUserIdx(msgs, Len(msgs)) IN
    IF i = 0 THEN <<>>
    ELSE IF msgs[i].is_list THEN JoinTextParts(msgs[i].parts)
    ELSE msgs[i].str

RouteHasImage(msgs) ==
    LET i == LastUserIdx(msgs, Len(msgs)) IN
    IF i = 0 THEN FALSE
    ELSE msgs[i].is_list /\ \E k \in 1..Len(msgs[i].parts) : msgs[i].parts[k].type = "image_url"

\* router.py:308-331: the model after auto-routing
AutoRoute(msgs, provider, model, auto_route) ==
    IF auto_route /\ provider # None
       /\ (RouteUserText(msgs) # <<>> \/ RouteHasImage(msgs))
    THEN IF provider \in ProviderNames
         THEN TIER_MODELS[classify_query(RouteUserText(msgs), RouteHasImage(msgs))][provider]
         ELSE model
    ELSE model

\* router.py:357-363: the model of a failover candidate in generate
FailoverUserText(msgs) ==
    LET i == LastUserIdx(msgs, Len(msgs)) IN
    IF i = 0 THEN <<>>
    ELSE IF msgs[i].is_list THEN <<>>
    ELSE msgs[i].str

FailoverTier(msgs) ==
    IF FailoverUserText(msgs) # <<>> THEN classify_query(FailoverUserText(msgs), FALSE)
    ELSE "normal"


\* router.py:353-363: the model generate passes to candidate prov_name
GenerateUseModel(prov_name, provider, model, msgs) ==
    IF prov_name = provider THEN model
    ELSE TIER_MODELS[FailoverTier(msgs)][prov_name]

\* router.py:461: the model stream passes to candidate prov_name
StreamUseModel(prov_name, provider, model, msgs) ==
    IF prov_name = provider THEN model ELSE get_default_model(prov_name)

(***************************************************************************)
(* LLMRouter state after initialize() (router.py:197-278)                  *)
(***************************************************************************)
InSeq(x, s) == \E i \in 1..Len(s) : s[i] = x

RECURSIVE ExtendNew(_, _, _)
ExtendNew(order, cands, allowed) ==
    IF cands = <<>> THEN order
    ELSE ExtendNew(IF Head(cands) \in allowed /\ ~InSeq(Head(cands), order)
                   THEN Append(order, Head(cands)) ELSE order,
                   Tail(cands), allowed)

build_failover_order(st, provs) ==
    ExtendNew(<<>>, <<st.default_provider, st.fallback_provider>> \o all_providers, provs)

\* the settings the model starts from: the source's defaults and another order
SettingsChoices ==
    { [default_provider |-> "groq", fallback_provider |-> "gemini"],
      [default_provider |-> "gemini", fallback_provider |-> "ollama"] }

InitialProvider(st, provs) ==
    IF build_failover_order(st, provs) = <<>> THEN None
    ELSE IF st.default_provider \in provs THEN st.default_provider
    ELSE build_failover_order(st, provs)[1]

\* the notifications of the event bus this model records
Event(type, provider, errs) == [type |-> type, provider |-> provider, errors |-> errs]

NoResult == [type |-> "none"]
Response(prov_name, model) == [type |-> "response", provider |-> prov_name, model |-> model]
AllProvidersFailedError ==
    [type |-> "AllProvidersFailedError", message |-> "All LLM providers failed",
     code |-> "ALL_PROVIDERS_FAILED"]
RawException == [type |-> "Exception"]
NoCall == [kind |-> "none", provider |-> None, model |-> None, messages |-> <<>>,
           auto_route |-> FALSE, disturbed |-> FALSE]

\* the notification switch_provider, switch_model and initialize emit
Changed(type, provider, model) == [type |-> type, provider |-> provider, model |-> model]
NoChange == [type |-> "none", provider |-> None, model |-> None]

\* the fields of a router call, with no call in flight
CallIdle ==
    /\ rpc = "idle"
    /\ call = NoCall
    /\ providers_to_try = <<>>
    /\ idx = 1
    /\ errors = <<>>
    /\ invoked = <<>>
    /\ result = NoResult
    /\ chunks = <<>>
    /\ sfinal = FALSE
    /\ bus = <<>>

\* router.py:197-214: the router __init__ leaves
RouterInit ==
    /\ settings \in SettingsChoices
    /\ providers = {}
    /\ failover_order = <<>>
    /\ current_provider = None
    /\ current_model = None
    /\ ipc = "groq"
    /\ admin = 0
    /\ changed = NoChange
    /\ CallIdle

\* router.py:216-262: the router a completed initialize() leaves, for each set
\* of providers whose initialize() succeeded
RouterInitialized ==
    /\ settings \in SettingsChoices
    /\ providers \in SUBSET ProviderNames
    /\ failover_order = build_failover_order(settings, providers)
    /\ current_provider = InitialProvider(settings, providers)
    /\ current_model = IF InitialProvider(settings, providers) = None THEN None
                       ELSE get_default_model(InitialProvider(settings, providers))
    /\ ipc = "done"
    /\ admin = 0
    /\ changed = IF InitialProvider(settings, providers) = None THEN NoChange
                 ELSE Changed("LLM_PROVIDER_CHANGED", current_provider, current_model)
    /\ CallIdle

(***************************************************************************)
(* Inputs of a router call                                                 *)
(***************************************************************************)
RouterMessageLists ==
    { <<Message_system>>,
      <<Message_system, Message_user(<<"compare">>)>>,
      <<Message_system, Message_user(<<"photo">>), Message_assistant(<<"chat">>)>>,
      <<Message_system, Message_user_with_image(<<"chat">>)>> }

RequestedProviders == ProviderNames \cup {None}
RequestedModels == {None, "custom-model"}

\* router.py:342-345 / 451-454
ProvidersToTryNoDedup(provider, fo) ==
    (IF provider # None THEN <<provider>> ELSE <<>>) \o fo
ProvidersToTry(provider, fo) ==
    ExtendNew(IF provider # None THEN <<provider>> ELSE <<>>, fo, ProviderNames)

RouterIdle == rpc = "idle"

CurrentCandidate == providers_to_try[idx]

\* router.py:304-345: generate up to the for loop
GenerateStart(req_provider, req_model, msgs, auto_route) ==
    /\ RouterIdle
    /\ LET provider == IF req_provider # None THEN req_provider ELSE current_provider
           model == IF req_model # None THEN req_model ELSE current_model
           routed == AutoRoute(msgs, provider, model, auto_route)
       IN /\ call' = [kind |-> "generate", provider |-> provider, model |-> routed,
                      messages |-> msgs, auto_route |-> auto_route,
                      disturbed |-> FALSE]
          /\ bus' = <<Event("LLM_REQUEST", provider, <<>>)>>
          /\ providers_to_try' = ProvidersToTry(provider, failover_order)
    /\ rpc' = "trying"
    /\ idx' = 1
    /\ errors' = <<>>
    /\ invoked' = <<>>
    /\ result' = NoResult
    /\ chunks' = <<>>
    /\ sfinal' = FALSE
    /\ UNCHANGED <<ipc, admin, changed, settings, providers, failover_order, current_provider,
                   current_model>>
    /\ UNCHANGED <<avars, cvars, xvars>>

InLoop(kind) ==
    /\ rpc = "trying"
    /\ call.kind = kind
    /\ idx <= Len(providers_to_try)

\* the candidate's generate has been called and the router awaits it
\* (router.py:366)
GeneratePending ==
    /\ invoked # <<>>
    /\ invoked[Len(invoked)].outcome = "pending"

\* router.py:348-349: a candidate that is not initialized is skipped
GenerateSkip ==
    /\ InLoop("generate")
    /\ ~GeneratePending
    /\ CurrentCandidate \notin providers
    /\ idx' = idx + 1
    /\ UNCHANGED <<ipc, admin, changed, settings, providers, failover_order, current_provider,
                   current_model,
                   rpc, call, providers_to_try, errors, invoked, result, chunks, sfinal, bus>>
    /\ UNCHANGED <<avars, cvars, xvars>>

Invocation(prov_name, model, oc) == [provider |-> prov_name, model |-> model, outcome |-> oc]
SetOutcome(inv, oc) == [inv EXCEPT ![Len(inv)].outcome = oc]

\* router.py:373-384: the provider returned a response
GenerateOnSuccessContinue(prov_name, use_model) ==
    /\ idx' = idx + 1
    /\ result' = Response(prov_name, use_model)
    /\ bus' = Append(bus, Event("LLM_RESPONSE", prov_name, <<>>))
    /\ UNCHANGED <<rpc, errors>>
GenerateOnSuccess(prov_name, use_model) ==
    /\ rpc' = "returned"
    /\ result' = Response(prov_name, use_model)
    /\ bus' = Append(bus, Event("LLM_RESPONSE", prov_name, <<>>))
    /\ UNCHANGED <<idx, errors>>

\* router.py:388 / 392 / 396: the entry appended to errors
ErrorText(kind) == CASE kind = "ratelimit" -> "Rate limited"
                     [] kind = "llmerror" -> "e.message"
                     [] OTHER -> "str(e)"
RecordErrorLLMOnly(errs, prov_name, kind) ==
    IF kind = "llmerror" THEN Append(errs, [provider |-> prov_name, text |-> ErrorText(kind)])
    ELSE errs
RecordError(errs, prov_name, kind) ==
    Append(errs, [provider |-> prov_name, text |-> ErrorText(kind)])

\* router.py:386-397: the provider raised
GenerateOnErrorNarrow(prov_name, kind) ==
    IF kind \in {"ratelimit", "llmerror"}
    THEN /\ errors' = RecordError(errors, prov_name, kind)
         /\ idx' = idx + 1
         /\ UNCHANGED <<rpc, result, bus>>
    ELSE /\ rpc' = "raised"
         /\ result' = RawException
         /\ UNCHANGED <<idx, errors, bus>>
GenerateOnError(prov_name, kind) ==
    /\ errors' = RecordError(errors, prov_name, kind)
    /\ idx' = idx + 1
    /\ UNCHANGED <<rpc, result, bus>>

ProviderOutcomes == {"ok", "ratelimit", "llmerror", "other"}

\* router.py:348-372: the candidate is initialized; its model is chosen and its
\* generate is called, and the router is suspended at the await
GenerateInvoke ==
    /\ InLoop("generate")
    /\ ~GeneratePending
    /\ CurrentCandidate \in providers
    /\ invoked' = Append(invoked,
          Invocation(CurrentCandidate,
                     GenerateUseModel(CurrentCandidate, call.provider, call.model,
                                      call.messages),
                     "pending"))
    /\ UNCHANGED <<ipc, admin, changed, settings, providers, failover_order, current_provider,
                   current_model,
                   rpc, call, providers_to_try, idx, errors, result, chunks, sfinal, bus>>
    /\ UNCHANGED <<avars, cvars, xvars>>

\* router.py:366-397: the awaited generate returns or raises, whatever
\* _providers holds by then
GenerateAttempt(oc) ==
    /\ InLoop("generate")
    /\ GeneratePending
    /\ LET prov_name == CurrentCandidate
           use_model == invoked[Len(invoked)].model
       IN /\ invoked' = SetOutcome(invoked, oc)
          /\ IF oc = "ok" THEN GenerateOnSuccess(prov_name, use_model)
             ELSE GenerateOnError(prov_name, oc)
    /\ UNCHANGED <<ipc, admin, changed, settings, providers, failover_order, current_provider,
                   current_model,
                   call, providers_to_try, chunks, sfinal>>
    /\ UNCHANGED <<avars, cvars, xvars>>

\* router.py:399-401
GenerateExhausted ==
    /\ rpc = "trying"
    /\ call.kind = "generate"
    /\ idx > Len(providers_to_try)
    /\ bus' = Append(bus, Event("LLM_ERROR", None, errors))
    /\ result' = AllProvidersFailedError
    /\ rpc' = "raised"
    /\ UNCHANGED <<ipc, admin, changed, settings, providers, failover_order, current_provider,
                   current_model,
                   call, providers_to_try, idx, errors, invoked, chunks, sfinal>>
    /\ UNCHANGED <<avars, cvars, xvars>>


(***************************************************************************)
(* Router.stream (router.py:403-491)                                       *)
(***************************************************************************)
\* router.py:416-454: stream up to the for loop
StreamStart(req_provider, req_model, msgs, auto_route) ==
    /\ RouterIdle
    /\ LET provider == IF req_provider # None THEN req_provider ELSE current_provider
           model == IF req_model # None THEN req_model ELSE current_model
           routed == AutoRoute(msgs, provider, model, auto_route)
       IN /\ call' = [kind |-> "stream", provider |-> provider, model |-> routed,
                      messages |-> msgs, auto_route |-> auto_route,
                      disturbed |-> FALSE]
          /\ bus' = <<Event("LLM_STREAM_START", provider, <<>>)>>
          /\ providers_to_try' = ProvidersToTry(provider, failover_order)
    /\ rpc' = "trying"
    /\ idx' = 1
    /\ errors' = <<>>
    /\ invoked' = <<>>
    /\ result' = NoResult
    /\ chunks' = <<>>
    /\ sfinal' = FALSE
    /\ UNCHANGED <<ipc, admin, changed, settings, providers, failover_order, current_provider,
                   current_model>>
    /\ UNCHANGED <<avars, cvars, xvars>>

\* the provider stream of the current candidate has been opened
StreamOpened ==
    /\ invoked # <<>>
    /\ invoked[Len(invoked)].provider = CurrentCandidate

\* router.py:457-458: the membership test comes before the stream is opened
StreamSkip ==
    /\ InLoop("stream")
    /\ ~StreamOpened
    /\ CurrentCandidate \notin providers
    /\ idx' = idx + 1
    /\ UNCHANGED <<ipc, admin, changed, settings, providers, failover_order, current_provider,
                   current_model,
                   rpc, call, providers_to_try, errors, invoked, result, chunks, sfinal, bus>>
    /\ UNCHANGED <<avars, cvars, xvars>>

\* router.py:460-469: the candidate's stream is opened with its model
StreamOpen ==
    /\ InLoop("stream")
    /\ CurrentCandidate \in providers
    /\ ~StreamOpened
    /\ invoked' = Append(invoked,
          Invocation(CurrentCandidate,
                     StreamUseModel(CurrentCandidate, call.provider, call.model, call.messages),
                     "open"))
    /\ UNCHANGED <<ipc, admin, changed, settings, providers, failover_order, current_provider,
                   current_model,
                   rpc, call, providers_to_try, idx, errors, result, chunks, sfinal, bus>>
    /\ UNCHANGED <<avars, cvars, xvars>>

Chunk(prov_name, has_content, is_final) ==
    [provider |-> prov_name, has_content |-> has_content, is_final |-> is_final]

ContentChunks == Cardinality({i \in 1..Len(chunks) : chunks[i].has_content})

ChunksFrom(prov_name) ==
    Cardinality({i \in 1..Len(chunks) : chunks[i].provider = prov_name})

\* router.py:470-480: the events emitted for a chunk, before it is yielded
ChunkEvents(prov_name, has_content, is_final) ==
    (IF has_content THEN <<Event("LLM_STREAM_CHUNK", prov_name, <<>>)>> ELSE <<>>)
    \o (IF is_final THEN <<Event("LLM_STREAM_END", prov_name, <<>>)>> ELSE <<>>)

\* router.py:464-480: the provider yields a chunk and the router passes it on
StreamYield(is_final) ==
    /\ InLoop("stream")
    /\ StreamOpened
    /\ ~sfinal
    /\ is_final \/ ContentChunks < MaxChunks
    /\ bus' = bus \o ChunkEvents(CurrentCandidate, ~is_final, is_final)
    /\ chunks' = Append(chunks, Chunk(CurrentCandidate, ~is_final, is_final))
    /\ sfinal' = is_final
    /\ UNCHANGED <<ipc, admin, changed, settings, providers, failover_order, current_provider,
                   current_model,
                   rpc, call, providers_to_try, idx, errors, invoked, result>>
    /\ UNCHANGED <<avars, cvars, xvars>>

\* gemini_provider.py:236: the adapter that yields its final chunk after the
\* loop over the lines, whatever the lines were
always_final(prov_name) == prov_name = "gemini"

\* router.py:481: the provider's stream ended; return
StreamEnd ==
    /\ InLoop("stream")
    /\ StreamOpened
    /\ always_final(CurrentCandidate) => sfinal
    /\ invoked' = SetOutcome(invoked, "ok")
    /\ rpc' = "returned"
    /\ result' = [type |-> "stream_end", provider |-> CurrentCandidate,
                  model |-> invoked[Len(invoked)].model]
    /\ UNCHANGED <<ipc, admin, changed, settings, providers, failover_order, current_provider,
                   current_model,
                   call, providers_to_try, idx, errors, chunks, sfinal, bus>>
    /\ UNCHANGED <<avars, cvars, xvars>>

\* router.py:483-488: what stream does with an exception of the provider's stream
StreamOnErrorTruncate(kind) ==
    IF kind \in {"ratelimit", "llmerror"} /\ ChunksFrom(CurrentCandidate) = 0
    THEN /\ idx' = idx + 1
         /\ sfinal' = FALSE
         /\ UNCHANGED <<rpc, result>>
    ELSE /\ rpc' = "raised"
         /\ result' = RawException
         /\ UNCHANGED <<idx, sfinal>>
StreamOnError(kind) ==
    IF kind \in {"ratelimit", "llmerror"}
    THEN /\ idx' = idx + 1
         /\ sfinal' = FALSE
         /\ UNCHANGED <<rpc, result>>
    ELSE /\ rpc' = "raised"
         /\ result' = RawException
         /\ UNCHANGED <<idx, sfinal>>

\* router.py:463-488: the provider's stream raises, before or after chunks
StreamRaise(kind) ==
    /\ InLoop("stream")
    /\ StreamOpened
    /\ invoked' = SetOutcome(invoked, kind)
    /\ StreamOnError(kind)
    /\ UNCHANGED <<ipc, admin, changed, settings, providers, failover_order, current_provider,
                   current_model,
                   call, providers_to_try, errors, chunks, bus>>
    /\ UNCHANGED <<avars, cvars, xvars>>

\* router.py:490-491
StreamExhausted ==
    /\ rpc = "trying"
    /\ call.kind = "stream"
    /\ idx > Len(providers_to_try)
    /\ bus' = Append(bus, Event("LLM_ERROR", None, <<"All providers failed">>))
    /\ result' = AllProvidersFailedError
    /\ rpc' = "raised"
    /\ UNCHANGED <<ipc, admin, changed, settings, providers, failover_order, current_provider,
                   current_model,
                   call, providers_to_try, idx, errors, invoked, chunks, sfinal>>
    /\ UNCHANGED <<avars, cvars, xvars>>

ErrorKinds == {"ratelimit", "llmerror", "other"}

(***************************************************************************)
(* initialize, switch_provider, switch_model, shutdown                     *)
(***************************************************************************)
\* the locals of the call in flight, which these operations leave alone
callvars == <<rpc, providers_to_try, idx, errors, invoked, result, chunks, sfinal, bus>>

\* the call in flight is marked when _providers or _failover_order change under it
Disturbed(c) == IF c.kind # "none" THEN [c EXCEPT !.disturbed = TRUE] ELSE c

NextToInitialize(p) ==
    CASE p = "groq" -> "gemini"
      [] p = "gemini" -> "ollama"
      [] p = "ollama" -> "order"

\* router.py:221-241: initialize() is at one provider; the provider is entered
\* in _providers when it is configured and its initialize() returns true
InitializeProvider(ok) ==
    /\ ipc \in ProviderNames
    /\ providers' = IF ok THEN providers \cup {ipc} ELSE providers
    /\ ipc' = NextToInitialize(ipc)
    /\ call' = IF providers' # providers THEN Disturbed(call) ELSE call
    /\ UNCHANGED <<settings, failover_order, current_provider, current_model, admin, changed>>
    /\ UNCHANGED <<callvars, avars, cvars, xvars>>

\* router.py:243-262: the failover order and the current provider and model
InitializeFinish ==
    /\ ipc = "order"
    /\ ipc' = "done"
    /\ failover_order' = build_failover_order(settings, providers)
    /\ call' = IF failover_order' # failover_order THEN Disturbed(call) ELSE call
    /\ IF build_failover_order(settings, providers) # <<>>
       THEN /\ current_provider' = InitialProvider(settings, providers)
            /\ current_model' = get_default_model(InitialProvider(settings, providers))
            /\ changed' = Changed("LLM_PROVIDER_CHANGED", current_provider', current_model')
       ELSE UNCHANGED <<current_provider, current_model, changed>>
    /\ UNCHANGED <<settings, providers, admin>>
    /\ UNCHANGED <<callvars, avars, cvars, xvars>>

\* router.py:495-507; a provider that is not in _providers raises
\* ProviderNotAvailableError and nothing changes
switch_provider(provider, model) ==
    /\ admin < MaxAdmin
    /\ admin' = admin + 1
    /\ IF provider \in providers
       THEN /\ current_provider' = provider
            /\ current_model' = IF model # None THEN model ELSE get_default_model(provider)
            /\ changed' = Changed("LLM_PROVIDER_CHANGED", current_provider', current_model')
       ELSE UNCHANGED <<current_provider, current_model, changed>>
    /\ UNCHANGED <<settings, providers, failover_order, ipc>>
    /\ UNCHANGED <<call, callvars, avars, cvars, xvars>>

\* router.py:509-515
switch_model(model) ==
    /\ admin < MaxAdmin
    /\ admin' = admin + 1
    /\ current_model' = model
    /\ changed' = Changed("LLM_MODEL_CHANGED", current_provider, model)
    /\ UNCHANGED <<settings, providers, failover_order, current_provider, ipc>>
    /\ UNCHANGED <<call, callvars, avars, cvars, xvars>>

\* router.py:564-573: self._providers.clear(); the failover order and the
\* current provider and model stay
shutdown ==
    /\ admin < MaxAdmin
    /\ admin' = admin + 1
    /\ providers' = {}
    /\ call' = IF providers # {} THEN Disturbed(call) ELSE call
    /\ UNCHANGED <<settings, failover_order, current_provider, current_model, ipc, changed>>
    /\ UNCHANGED <<callvars, avars, cvars, xvars>>

\* the caller has received the call's result; the router is ready for the next call
RouterReturnStep ==
    /\ rpc \in {"returned", "raised"}
    /\ rpc' = "idle"
    /\ call' = NoCall
    /\ providers_to_try' = <<>>
    /\ idx' = 1
    /\ errors' = <<>>
    /\ invoked' = <<>>
    /\ result' = NoResult
    /\ chunks' = <<>>
    /\ sfinal' = FALSE
    /\ bus' = <<>>
    /\ UNCHANGED <<ipc, admin, changed, settings, providers, failover_order, current_provider,
                   current_model>>

RouterReturn == RouterReturnStep /\ UNCHANGED <<avars, cvars, xvars>>

(***************************************************************************)
(* HolexAgent (agent.py)                                                   *)
(***************************************************************************)
MAX_ITERATIONS == 5

ToolResult(success, output, error) == [success |-> success, output |-> output, error |-> error]

\* tools/base.py:18-21: ToolResult.__str__
ToolResult_str(r) ==
    IF r.success THEN <<r.output>>
    ELSE <<"Error: ", IF r.error # "" THEN r.error ELSE r.output>>

\* Python values a tool call's arguments can hold
Missing == [py |-> "missing", keys |-> {}]
Dict(keys) == [py |-> "dict", keys |-> keys]
PyList == [py |-> "list", keys |-> {}]
PyNone == [py |-> "NoneType", keys |-> {}]
PyStr(s) == [py |-> "str", keys |-> {s}]

\* the JSON texts of the model
JSON_Action == "{\"action\": \"open_app\", \"target\": \"chrome\"}"
JSON_Empty == "{}"
JSON_List == "[1, 2]"
JSON_Null == "null"
JSON_Broken == "{\"action\": "

Returned(v) == [raises |-> "", value |-> v]
Raised(exc) == [raises |-> exc, value |-> PyNone]

\* json.loads: a str is decoded or is not JSON; anything else is a TypeError
json_loads(s) ==
    IF s.py # "str" THEN Raised("TypeError")
    ELSE CASE s = PyStr(JSON_Action) -> Returned(Dict({"action", "target"}))
           [] s = PyStr(JSON_Empty) -> Returned(Dict({}))
           [] s = PyStr(JSON_List) -> Returned(PyList)
           [] s = PyStr(JSON_Null) -> Returned(PyNone)
           [] OTHER -> Raised("JSONDecodeError")

\* json.dumps on the values json_loads returns
json_dumps(v) ==
    CASE v = Dict({"action", "target"}) -> JSON_Action
      [] v = Dict({}) -> JSON_Empty
      [] v = PyList -> JSON_List
      [] v = PyNone -> JSON_Null
      [] OTHER -> "\"...\""

\* a tool: its name, the parameters its execute requires, and the result
\* execute returns when it is given them
Tool(name, required, returns) == [name |-> name, required |-> required, result |-> returns]

UnknownAction == ToolResult(FALSE, "", "Unknown action: open_app")

\* agent.py:58-74: the ten tools _register_default_tools registers, each with
\* the signature of its execute (tools/*.py)
DefaultTools ==
    { Tool("web_search", {"query"}, ToolResult(TRUE, "results", "")),
      Tool("calculator", {"expression"}, ToolResult(TRUE, "4", "")),
      Tool("weather", {"city"}, ToolResult(TRUE, "sunny", "")),
      Tool("wikipedia", {"topic"}, ToolResult(TRUE, "summary", "")),
      Tool("system_control", {"action"}, ToolResult(TRUE, "Opened Chrome", "")),
      Tool("code_runner", {"code"}, ToolResult(TRUE, "ran", "")),
      Tool("timer_alarm", {"action"}, UnknownAction),
      Tool("reminders", {"action"}, UnknownAction),
      Tool("translate_convert", {"action"}, UnknownAction),
      Tool("notes", {"action"}, UnknownAction) }

\* a tool of the caller's own, handed to register_tool
GhostTool == Tool("ghost_tool", {}, ToolResult(TRUE, "boo", ""))
CustomTools == {GhostTool}

\* agent.py:76-79: self._tools[tool.name] = tool
with_tool(reg, tool) == {t \in reg : t.name # tool.name} \cup {tool}

ToolNames(reg) == {t.name : t \in reg}

\* self._tools.get(tool_name), for a registered name
ToolNamed(reg, tool_name) == CHOOSE t \in reg : t.name = tool_name

\* str(e) of the TypeError a call without the required parameter k raises
MissingArgument(k) ==
    CASE k = "action" -> "missing required argument: 'action'"
      [] k = "code" -> "missing required argument: 'code'"
      [] k = "query" -> "missing required argument: 'query'"
      [] k = "expression" -> "missing required argument: 'expression'"
      [] k = "city" -> "missing required argument: 'city'"
      [] k = "topic" -> "missing required argument: 'topic'"

\* what tool.execute(**args) does: a call with something that is not a mapping,
\* or without a required parameter, raises TypeError
ToolBehaviour(tool, args) ==
    IF args.py # "dict"
    THEN [raises |-> TRUE, result |-> ToolResult(FALSE, "", "argument after ** must be a mapping")]
    ELSE IF tool.required \subseteq args.keys
         THEN [raises |-> FALSE, result |-> tool.result]
         ELSE [raises |-> TRUE,
               result |-> ToolResult(FALSE, "", MissingArgument(
                             CHOOSE k \in tool.required : k \notin args.keys))]

\* agent.py:395-409
execute_tool(reg, tool_name, args) ==
    IF tool_name \notin ToolNames(reg)
    THEN ToolResult(FALSE, "", "Tool not found")
    ELSE IF ToolBehaviour(ToolNamed(reg, tool_name), args).raises
         THEN ToolResult(FALSE, "", ToolBehaviour(ToolNamed(reg, tool_name), args).result.error)
         ELSE ToolBehaviour(ToolNamed(reg, tool_name), args).result

\* a tool-call entry of a raw response: the id is <<>> when the "id" key is
\* absent or empty; arguments is Missing when the key is absent
RawCall(id, name, arguments) == [id |-> id, name |-> name, arguments |-> arguments]
ServerId(x) == <<"srv", x>>
ArgsOK == PyStr(JSON_Action)

\* a tool call as _extract_tool_calls returns it (agent.py:375-379, 388-391)
ToolCall(id, name, arguments) == [id |-> id, name |-> name, arguments |-> arguments]

\* agent.py:369-379: the OpenAI shape, entry by entry; json.loads of the
\* arguments, a JSONDecodeError giving {}, any other exception escaping
RECURSIVE extract_openai(_)
extract_openai(calls) ==
    IF calls = <<>> THEN Returned(<<>>)
    ELSE LET entry == Head(calls)
             text == IF entry.arguments = Missing THEN PyStr(JSON_Empty) ELSE entry.arguments
             loaded == json_loads(text)
             args == IF loaded.raises = "JSONDecodeError" THEN Dict({}) ELSE loaded.value
             rest == extract_openai(Tail(calls))
         IN  IF loaded.raises \notin {"", "JSONDecodeError"} THEN Raised(loaded.raises)
             ELSE IF rest.raises # "" THEN rest
             ELSE Returned(<<ToolCall(entry.id, entry.name, args)>> \o rest.value)

\* agent.py:382-391: the function-call shape has no ids and carries the
\* arguments as a value
extract_gemini(calls) ==
    Returned([i \in 1..Len(calls) |->
                ToolCall(<<>>, calls[i].name,
                         IF calls[i].arguments = Missing THEN Dict({}) ELSE calls[i].arguments)])

\* agent.py:360-393
extract_tool_calls(raw) ==
    IF raw.shape = "openai" THEN extract_openai(raw.calls) ELSE extract_gemini(raw.calls)

RawResponse(shape, calls) == [shape |-> shape, calls |-> calls]

\* the raw responses with tool calls the model may answer with
RawResponses ==
    { RawResponse("openai", <<RawCall(ServerId("a"), "system_control", ArgsOK)>>),
      RawResponse("openai", <<RawCall(ServerId("a"), "system_control", ArgsOK),
                              RawCall(ServerId("b"), "code_runner", ArgsOK)>>),
      RawResponse("openai", <<RawCall(<<>>, "ghost_tool", ArgsOK),
                              RawCall(<<>>, "system_control", ArgsOK)>>),
      RawResponse("openai", <<RawCall(ServerId("a"), "system_control", ArgsOK),
                              RawCall(ServerId("a"), "system_control", Missing)>>),
      RawResponse("openai", <<RawCall(ServerId("a"), "system_control", PyStr(JSON_Broken)),
                              RawCall(ServerId("b"), "system_control", ArgsOK)>>),
      RawResponse("openai", <<RawCall(ServerId("a"), "system_control", ArgsOK),
                              RawCall(ServerId("b"), "system_control", PyNone)>>),
      RawResponse("openai", <<RawCall(ServerId("a"), "system_control", PyStr(JSON_List))>>),
      RawResponse("gemini", <<RawCall(<<>>, "system_control", Dict({"action", "target"})),
                              RawCall(<<>>, "code_runner", Dict({"action", "target"}))>>),
      RawResponse("gemini", <<RawCall(<<>>, "code_runner", Dict({"action", "target"})),
                              RawCall(<<>>, "ghost_tool", Missing),
                              RawCall(<<>>, "system_control", Dict({"action", "target"}))>>) }

Scripts == {r \in RawResponses : Len(r.calls) <= MaxToolCalls}

\* uuid.uuid4().hex[:8]: taken to give an id no other call of the turn has
uuid4(it, i) == <<"uuid", it, i>>

\* the calls are handed on with the ids the response gave them
NormalizeKeepsIds(tcs, it) == tcs
\* agent.py:207-218: every call without an id gets a generated one
Normalize(tcs, it) ==
    [i \in 1..Len(tcs) |->
        IF tcs[i].id = <<>> THEN [tcs[i] EXCEPT !.id = uuid4(it, i)] ELSE tcs[i]]

\* agent.py:221-222: the Assistant message carrying the tool-call descriptors
AssistantToolCallMessage(content, tcs) ==
    [Message_assistant(content) EXCEPT
        !.tool_calls = [i \in 1..Len(tcs) |->
                          [id |-> tcs[i].id, type |-> "function", name |-> tcs[i].name,
                           arguments |-> json_dumps(tcs[i].arguments)]]]

\* asyncio.gather: the results in the order of the awaitables
gather_completion_order(res, order) == [k \in 1..Len(order) |-> res[order[k]]]
gather(res, order) == res

\* one Tool message per call whose execution succeeded only
RECURSIVE ToolMessagesSkipFailed(_, _)
ToolMessagesSkipFailed(tcs, res) ==
    IF tcs = <<>> THEN <<>>
    ELSE (IF res[1].success
          THEN <<Message_tool(ToolResult_str(res[1]), tcs[1].name, tcs[1].id)>>
          ELSE <<>>)
         \o ToolMessagesSkipFailed(Tail(tcs), Tail(res))

\* agent.py:240-253: one Tool message per (call, result) pair of the zip
ToolMessages(tcs, res) ==
    [i \in 1..Len(tcs) |-> Message_tool(ToolResult_str(res[i]), tcs[i].name, tcs[i].id)]

\* agent.py:411-414
LastN(s, n) == IF Len(s) > n THEN SubSeq(s, Len(s) - n + 1, Len(s)) ELSE s
trim_history(h) == IF Len(h) > MaxHistory THEN LastN(h, MaxHistory) ELSE h

\* agent.py:346-358
RagMessage(rag) == Message("system", <<"RAG_CONTEXT_PROMPT", rag>>, FALSE, <<>>)
build_messages_rag_last(rag_context, h) ==
    <<Message_system>>
    \o LastN(h, MaxHistory)
    \o (IF rag_context # "" THEN <<RagMessage(rag_context)>> ELSE <<>>)
build_messages(rag_context, h) ==
    <<Message_system>>
    \o (IF rag_context # "" THEN <<RagMessage(rag_context)>> ELSE <<>>)
    \o LastN(h, MaxHistory)

\* agent.py:175 / 282: for iteration in range(MAX_ITERATIONS)
LoopContinuesOneMore(it) == it <= MAX_ITERATIONS
LoopContinues(it) == it < MAX_ITERATIONS

NoTurn == [kind |-> "none", rag |-> "", script |-> RawResponse("none", <<>>),
           before |-> <<>>, router |-> <<>>, cleared |-> FALSE]

AgentInit ==
    /\ history = <<>>
    /\ appended = <<>>
    /\ apc = "idle"
    /\ turn = NoTurn
    /\ messages = <<>>
    /\ iteration = 0
    /\ gen_calls = 0
    /\ tool_calls = <<>>
    /\ results = <<>>
    /\ pending = {}
    /\ completed = <<>>
    /\ full_response = <<>>
    /\ forwarded = <<>>
    /\ outcome = "none"
    /\ turns = 0
    /\ outbound = <<>>
    /\ reply = <<>>
    /\ tools = DefaultTools

\* the text the user types in turn n and the text the model answers with
UserText(n) == <<"chat", ToString(n)>>
AnswerText(n) == <<"answer", ToString(n)>>
RagContexts == {"", "doc"}

\* str(e) of the exceptions that reach the agent's except clauses
AllFailedText == "All LLM providers failed"
TypeErrorText == "the JSON object must be str, bytes or bytearray, not NoneType"
\* router.py:483-488: Router.stream raises AllProvidersFailedError, or lets
\* through an exception of the provider's stream that is neither RateLimitError
\* nor LLMError
RuntimeErrorText == "boom"
StreamErrorTexts == {AllFailedText, RuntimeErrorText}

ErrorMessageFor(e) == <<"I encountered an error: ", e, ". Let me try to help anyway.">>
StreamErrorMessageFor(e) == <<"Sorry, I encountered an error: ", e>>
ErrorMessage == ErrorMessageFor(AllFailedText)
VisionErrorMessage == <<"Vision analysis failed: ", AllFailedText>>
ExhaustedMessage == <<"I've done extensive research but couldn't finalize an answer.">>

\* one Router.generate call as the agent makes it: the outbound list, whether
\* tool schemas are passed, and auto_route
GenerateCall(msgs, with_tools, auto_route) ==
    [messages |-> msgs, tools |-> with_tools, auto_route |-> auto_route]

\* the router state a turn finds when it starts
RouterState == <<providers, failover_order, current_provider, current_model>>

\* agent.py:261 / 344: the error message is appended
history_on_error_trimmed(h, msg) == trim_history(Append(h, Message_assistant(msg)))
history_on_error(h, msg) == Append(h, Message_assistant(msg))

\* agent.py:264-265: the loop ran out of iterations and process returns
history_when_exhausted_appends(h) == Append(h, Message_assistant(ExhaustedMessage))
history_when_exhausted(h) == h

\* agent.py:335: full_response += chunk.content
accumulate_last(full, content) == content
accumulate(full, content) == full \o content

\* agent.py:118-122: the outbound list of process_with_image
image_messages_text_only(prompt) == <<Message_system, Message_user(prompt)>>
image_messages(prompt) == <<Message_system, Message_user_with_image(prompt)>>

\* agent.py:161-172 / 277-278: the turn up to the tool loop
StartTurn(kind, rag_context, script) ==
    /\ UNCHANGED tools
    /\ apc = "idle"
    /\ turns < MaxTurns
    /\ turns' = turns + 1
    /\ turn' = [kind |-> kind, rag |-> rag_context, script |-> script,
                before |-> history, router |-> RouterState, cleared |-> FALSE]
    /\ history' = Append(history, Message_user(UserText(turns + 1)))
    /\ appended' = Append(appended, Message_user(UserText(turns + 1)))
    /\ messages' = build_messages(rag_context, history')
    /\ iteration' = 0
    /\ gen_calls' = 0
    /\ tool_calls' = <<>>
    /\ results' = <<>>
    /\ pending' = {}
    /\ completed' = <<>>
    /\ full_response' = <<>>
    /\ forwarded' = <<>>
    /\ outcome' = "none"
    /\ outbound' = <<>>
    /\ reply' = <<>>
    /\ apc' = "generate"
    /\ UNCHANGED <<rvars, cvars, xvars>>

process(rag_context, script) == StartTurn("process", rag_context, script)
stream_process(rag_context, script) == StartTurn("stream", rag_context, script)

InToolLoop ==
    /\ apc = "generate"
    /\ turn.kind \in {"process", "stream"}

\* agent.py:177-180 / 283-286: the call the loop makes
LoopCall == GenerateCall(messages, TRUE, TRUE)

\* agent.py:255-262 (process) / 341-343 (stream_process): an exception reaches
\* the except clause of the turn; process appends the error message and
\* returns it, stream_process yields it and is suspended at the yield
OnException(e) ==
    /\ UNCHANGED tools
    /\ gen_calls' = gen_calls + 1
    /\ outbound' = Append(outbound, LoopCall)
    /\ IF turn.kind = "process"
       THEN /\ history' = history_on_error(history, ErrorMessageFor(e))
            /\ appended' = Append(appended, Message_assistant(ErrorMessageFor(e)))
            /\ forwarded' = forwarded
            /\ reply' = ErrorMessageFor(e)
            /\ apc' = "done"
       ELSE /\ history' = history
            /\ appended' = appended
            /\ forwarded' = Append(forwarded, StreamErrorMessageFor(e))
            /\ reply' = reply
            /\ apc' = "error_yielded"
    /\ outcome' = "error"
    /\ UNCHANGED <<turn, messages, iteration, tool_calls, results, pending, completed,
                   full_response, turns>>

\* the loop goes on to its next pass after a failed Router.generate
GenerateRaisesRetryStep ==
    /\ UNCHANGED tools
    /\ InToolLoop
    /\ LoopContinues(iteration + 1)
    /\ gen_calls' = gen_calls + 1
    /\ outbound' = Append(outbound, LoopCall)
    /\ iteration' = iteration + 1
    /\ outcome' = "error"
    /\ UNCHANGED <<history, appended, apc, turn, messages, tool_calls, results, pending,
                   completed, full_response, forwarded, turns, reply>>

\* Router.generate raised
GenerateRaisesStep ==
    /\ InToolLoop
    /\ OnException(AllFailedText)

GenerateRaises == GenerateRaisesStep /\ UNCHANGED <<rvars, cvars, xvars>>

\* agent.py:184 / 289: Router.generate returned a response whose tool calls
\* _extract_tool_calls cannot read
ExtractRaisesStep ==
    /\ InToolLoop
    /\ extract_tool_calls(turn.script).raises # ""
    /\ OnException(TypeErrorText)

ExtractRaises == ExtractRaisesStep /\ UNCHANGED <<rvars, cvars, xvars>>

\* agent.py:186-200 (process) / 291-292 (stream_process): no tool call in the response
RespondsFinalStep ==
    /\ UNCHANGED tools
    /\ InToolLoop
    /\ gen_calls' = gen_calls + 1
    /\ outbound' = Append(outbound, LoopCall)
    /\ tool_calls' = <<>>
    /\ IF turn.kind = "process"
       THEN /\ history' = trim_history(Append(history, Message_assistant(AnswerText(turns))))
            /\ appended' = Append(appended, Message_assistant(AnswerText(turns)))
            /\ outcome' = "final"
            /\ reply' = AnswerText(turns)
            /\ apc' = "done"
       ELSE /\ history' = history
            /\ appended' = appended
            /\ outcome' = outcome
            /\ reply' = reply
            /\ apc' = "streaming"
    /\ UNCHANGED <<turn, messages, iteration, results, pending, completed,
                   full_response, forwarded, turns>>

RespondsFinal == RespondsFinalStep /\ UNCHANGED <<rvars, cvars, xvars>>

\* agent.py:220-223 / 308-310: the Assistant message carrying the tool calls goes
\* to the outbound list (messages.append), the history is not written
history_on_tool_calls_appends(h, msg) == Append(h, msg)
history_on_tool_calls(h, msg) == h

\* agent.py:202-238 / 294-318: the response carries the tool calls of the script;
\* they are extracted and normalized, the Assistant message is appended to the
\* outbound list and all executions are launched
RespondsToolCallsStep ==
    /\ UNCHANGED tools
    /\ InToolLoop
    /\ extract_tool_calls(turn.script).raises = ""
    /\ extract_tool_calls(turn.script).value # <<>>
    /\ gen_calls' = gen_calls + 1
    /\ outbound' = Append(outbound, LoopCall)
    /\ tool_calls' = Normalize(extract_tool_calls(turn.script).value, iteration)
    /\ messages' = Append(messages, AssistantToolCallMessage(<<>>, tool_calls'))
    /\ results' = [i \in 1..Len(tool_calls') |-> ToolResult(FALSE, "", "pending")]
    /\ pending' = 1..Len(tool_calls')
    /\ completed' = <<>>
    /\ apc' = "tools"
    /\ history' = history_on_tool_calls(history, AssistantToolCallMessage(<<>>, tool_calls'))
    /\ appended' = IF history' = history THEN appended
                   ELSE Append(appended, history'[Len(history')])
    /\ UNCHANGED <<turn, iteration, full_response, forwarded, outcome, turns, reply>>

RespondsToolCalls == RespondsToolCallsStep /\ UNCHANGED <<rvars, cvars, xvars>>

\* agent.py:235-238: one execution completes, in any order
ToolCompletes(i) ==
    /\ UNCHANGED tools
    /\ apc = "tools"
    /\ i \in pending
    /\ results' = [results EXCEPT
                     ![i] = execute_tool(tools, tool_calls[i].name, tool_calls[i].arguments)]
    /\ pending' = pending \ {i}
    /\ completed' = Append(completed, i)
    /\ UNCHANGED <<history, appended, apc, turn, messages, iteration, gen_calls, tool_calls,
                   full_response, forwarded, outcome, turns, outbound, reply>>
    /\ UNCHANGED <<rvars, cvars, xvars>>

\* agent.py:235-238 / 314-318: await asyncio.gather(...) returns when every
\* execution it was given has completed
gather_returns_first_done(p) == TRUE
gather_returns(p) == p = {}

\* agent.py:240-265 / 320-331: gather returns; the Tool messages are appended and
\* the loop goes on, or ends when the iterations are used up
GatherReturns ==
    /\ UNCHANGED tools
    /\ apc = "tools"
    /\ gather_returns(pending)
    /\ messages' = messages \o ToolMessages(tool_calls, gather(results, completed))
    /\ iteration' = iteration + 1
    /\ IF LoopContinues(iteration + 1)
       THEN /\ apc' = "generate"
            /\ outcome' = outcome
            /\ reply' = reply
            /\ history' = history
            /\ appended' = appended
       ELSE IF turn.kind = "process"
            THEN /\ apc' = "done"
                 /\ outcome' = "exhausted"
                 /\ reply' = ExhaustedMessage
                 /\ history' = history_when_exhausted(history)
                 /\ appended' = IF history' = history THEN appended
                                ELSE Append(appended, history'[Len(history')])
            ELSE /\ apc' = "streaming"
                 /\ outcome' = outcome
                 /\ reply' = reply
                 /\ history' = history
                 /\ appended' = appended
    /\ UNCHANGED <<turn, gen_calls, tool_calls, results, pending, completed,
                   full_response, forwarded, turns, outbound>>
    /\ UNCHANGED <<rvars, cvars, xvars>>

\* agent.py:333-336: Router.stream yields a chunk with content; it is yielded
\* to the consumer and the generator is suspended at the yield
StreamForward ==
    /\ UNCHANGED tools
    /\ apc = "streaming"
    /\ Len(forwarded) < MaxForward
    /\ full_response' = accumulate(full_response, <<"chunk", ToString(Len(forwarded) + 1)>>)
    /\ forwarded' = Append(forwarded, <<"chunk", ToString(Len(forwarded) + 1)>>)
    /\ apc' = "yielded"
    /\ UNCHANGED <<history, appended, turn, messages, iteration, gen_calls, tool_calls,
                   results, pending, completed, outcome, turns, outbound, reply>>
    /\ UNCHANGED <<rvars, cvars, xvars>>

\* agent.py:338-339: Router.stream is exhausted
StreamCompletes ==
    /\ UNCHANGED tools
    /\ apc = "streaming"
    /\ history' = trim_history(Append(history, Message_assistant(full_response)))
    /\ appended' = Append(appended, Message_assistant(full_response))
    /\ outcome' = "streamed"
    /\ apc' = "done"
    /\ UNCHANGED <<turn, messages, iteration, gen_calls, tool_calls, results, pending,
                   completed, full_response, forwarded, turns, outbound, reply>>
    /\ UNCHANGED <<rvars, cvars, xvars>>

\* agent.py:341-343: Router.stream raised e; the error message, made of str(e),
\* is yielded and the generator is suspended at the yield
StreamFails(e) ==
    /\ UNCHANGED tools
    /\ apc = "streaming"
    /\ forwarded' = Append(forwarded, StreamErrorMessageFor(e))
    /\ outcome' = "stream_error"
    /\ apc' = "error_yielded"
    /\ UNCHANGED <<history, appended, turn, messages, iteration, gen_calls, tool_calls,
                   results, pending, completed, full_response, turns, outbound, reply>>
    /\ UNCHANGED <<rvars, cvars, xvars>>

\* agent.py:333: the consumer asks for the next item and the generator goes on
\* with the async for over Router.stream
StreamResume ==
    /\ apc = "yielded"
    /\ apc' = "streaming"
    /\ UNCHANGED <<history, appended, turn, messages, iteration, gen_calls, tool_calls,
                   results, pending, completed, full_response, forwarded, outcome, turns,
                   outbound, reply, tools>>
    /\ UNCHANGED <<rvars, cvars, xvars>>

\* agent.py:344: the consumer asks for the next item after the error message;
\* the message is appended to the history and the generator ends
StreamErrorResume ==
    /\ apc = "error_yielded"
    /\ history' = history_on_error(history, forwarded[Len(forwarded)])
    /\ appended' = Append(appended, Message_assistant(forwarded[Len(forwarded)]))
    /\ apc' = "done"
    /\ UNCHANGED <<turn, messages, iteration, gen_calls, tool_calls, results, pending,
                   completed, full_response, forwarded, outcome, turns, outbound, reply,
                   tools>>
    /\ UNCHANGED <<rvars, cvars, xvars>>

\* the consumer stops at an item it was yielded (agent.py:336 or 343): aclose()
\* raises GeneratorExit at the yield, which no except clause of stream_process
\* catches, and nothing is appended to the history
StreamClose ==
    /\ apc \in {"yielded", "error_yielded"}
    /\ apc' = "done"
    /\ outcome' = "closed"
    /\ UNCHANGED <<history, appended, turn, messages, iteration, gen_calls, tool_calls,
                   results, pending, completed, full_response, forwarded, turns, outbound,
                   reply, tools>>
    /\ UNCHANGED <<rvars, cvars, xvars>>

\* agent.py:98-100: the image file does not exist
process_with_image_missing ==
    /\ UNCHANGED tools
    /\ apc = "idle"
    /\ turns < MaxTurns
    /\ turns' = turns + 1
    /\ turn' = [kind |-> "image", rag |-> "", script |-> RawResponse("none", <<>>),
                before |-> history, router |-> RouterState, cleared |-> FALSE]
    /\ outcome' = "image_not_found"
    /\ reply' = <<"Image file not found: ">>
    /\ apc' = "done"
    /\ gen_calls' = 0
    /\ outbound' = <<>>
    /\ UNCHANGED <<history, appended, messages, iteration, tool_calls, results, pending, completed,
                   full_response, forwarded>>
    /\ UNCHANGED <<rvars, cvars, xvars>>

\* agent.py:102-127: the image exists; whatever a response of the call will
\* carry (the script), the turn never reads it
process_with_image(script) ==
    /\ UNCHANGED tools
    /\ apc = "idle"
    /\ turns < MaxTurns
    /\ turns' = turns + 1
    /\ turn' = [kind |-> "image", rag |-> "", script |-> script,
                before |-> history, router |-> RouterState, cleared |-> FALSE]
    /\ history' = Append(history, Message_user(<<"[Image: name] ">> \o UserText(turns + 1)))
    /\ appended' = Append(appended, Message_user(<<"[Image: name] ">> \o UserText(turns + 1)))
    /\ messages' = image_messages(UserText(turns + 1))
    /\ iteration' = 0
    /\ gen_calls' = 0
    /\ tool_calls' = <<>>
    /\ results' = <<>>
    /\ pending' = {}
    /\ completed' = <<>>
    /\ full_response' = <<>>
    /\ forwarded' = <<>>
    /\ outcome' = "none"
    /\ outbound' = <<>>
    /\ reply' = <<>>
    /\ apc' = "generate"
    /\ UNCHANGED <<rvars, cvars, xvars>>

\* agent.py:129-150: the single Router.generate call of process_with_image
ImageRespondsStep(ok) ==
    /\ UNCHANGED tools
    /\ apc = "generate"
    /\ turn.kind = "image"
    /\ gen_calls' = gen_calls + 1
    /\ outbound' = Append(outbound, GenerateCall(messages, FALSE, TRUE))
    /\ IF ok
       THEN /\ history' = trim_history(Append(history, Message_assistant(AnswerText(turns))))
            /\ appended' = Append(appended, Message_assistant(AnswerText(turns)))
            /\ outcome' = "final"
            /\ reply' = AnswerText(turns)
       ELSE /\ history' = history_on_error(history, VisionErrorMessage)
            /\ appended' = Append(appended, Message_assistant(VisionErrorMessage))
            /\ outcome' = "error"
            /\ reply' = VisionErrorMessage
    /\ apc' = "done"
    /\ UNCHANGED <<turn, messages, iteration, tool_calls, results, pending, completed,
                   full_response, forwarded, turns>>

ImageResponds(ok) == ImageRespondsStep(ok) /\ UNCHANGED <<rvars, cvars, xvars>>

\* the turn has returned to its caller, who may start the next one
TurnReturns ==
    /\ UNCHANGED tools
    /\ apc = "done"
    /\ apc' = "idle"
    /\ turn' = NoTurn
    /\ messages' = <<>>
    /\ iteration' = 0
    /\ gen_calls' = 0
    /\ tool_calls' = <<>>
    /\ results' = <<>>
    /\ pending' = {}
    /\ completed' = <<>>
    /\ full_response' = <<>>
    /\ forwarded' = <<>>
    /\ outcome' = "none"
    /\ outbound' = <<>>
    /\ reply' = <<>>
    /\ UNCHANGED <<history, appended, turns>>
    /\ UNCHANGED <<rvars, cvars, xvars>>

\* agent.py:76-79
register_tool(tool) ==
    /\ tool \notin tools
    /\ tools' = with_tool(tools, tool)
    /\ UNCHANGED <<history, appended, apc, turn, messages, iteration, gen_calls, tool_calls,
                   results, pending, completed, full_response, forwarded, outcome, turns,
                   outbound, reply>>
    /\ UNCHANGED <<rvars, cvars, xvars>>

\* agent.py:54-56: self._history.clear(), whatever a turn in flight is doing;
\* the turn's outbound list is a list of its own (agent.py:346-358)
clear_history ==
    /\ history' = <<>>
    /\ appended' = <<>>
    /\ turn' = IF turn.kind # "none" /\ history # <<>>
               THEN [turn EXCEPT !.cleared = TRUE] ELSE turn
    /\ UNCHANGED <<apc, messages, iteration, gen_calls, tool_calls, results, pending,
                   completed, full_response, forwarded, outcome, turns, outbound, reply,
                   tools>>
    /\ UNCHANGED <<rvars, cvars, xvars>>

(***************************************************************************)
(* The provider adapters' stream (providers/*_provider.py)                 *)
(***************************************************************************)
\* a line of the response body: whether it starts with "data: " and what follows
Line(data_prefix, body) == [data_prefix |-> data_prefix, body |-> body]

\* the payloads of the model: "" (nothing), the SSE terminator, a JSON object
\* in each provider's shape with or without text, and text that is not JSON
Bodies == {"blank", "[DONE]", "groq_delta", "groq_empty_delta", "ollama_content",
           "ollama_content_done", "ollama_done", "gemini_text", "gemini_no_text",
           "garbage"}

\* json.loads(body) succeeds
IsJSON(body) == body \notin {"blank", "[DONE]", "garbage"}

\* the lines a response body is drawn from
Lines == {Line(FALSE, "blank"), Line(TRUE, "[DONE]"), Line(TRUE, "groq_delta"),
          Line(TRUE, "groq_empty_delta"), Line(FALSE, "ollama_content"),
          Line(FALSE, "ollama_content_done"), Line(FALSE, "ollama_done"),
          Line(TRUE, "gemini_text"), Line(TRUE, "garbage")}

HttpStatuses == {200, 429, 500}

\* what one pass of the async for does with a line: the chunks it yields,
\* whether it leaves the loop, and the exception it raises
Pass(yields, stop, raises) == [yields |-> yields, stop |-> stop, raises |-> raises]

\* groq_provider.py:149-167
groq_line(line) ==
    IF ~line.data_prefix THEN Pass(<<>>, FALSE, "")
    ELSE IF line.body = "[DONE]" THEN Pass(<<Chunk("groq", FALSE, TRUE)>>, TRUE, "")
    ELSE IF ~IsJSON(line.body) THEN Pass(<<>>, TRUE, "LLMError")
    ELSE IF line.body \notin {"groq_delta", "groq_empty_delta"}
         THEN Pass(<<>>, TRUE, "LLMError")
    ELSE IF line.body = "groq_delta" THEN Pass(<<Chunk("groq", TRUE, FALSE)>>, FALSE, "")
    ELSE Pass(<<>>, FALSE, "")

\* ollama_provider.py:152-173: a line is the JSON text itself
ollama_line(line) ==
    IF ~line.data_prefix /\ line.body = "blank" THEN Pass(<<>>, FALSE, "")
    ELSE IF line.data_prefix \/ ~IsJSON(line.body) THEN Pass(<<>>, FALSE, "")
    ELSE LET content == line.body \in {"ollama_content", "ollama_content_done"}
             done == line.body \in {"ollama_content_done", "ollama_done"}
         IN  Pass((IF content THEN <<Chunk("ollama", TRUE, FALSE)>> ELSE <<>>)
                  \o (IF done THEN <<Chunk("ollama", FALSE, TRUE)>> ELSE <<>>),
                  done, "")

\* gemini_provider.py:214-234
gemini_line(line) ==
    IF ~line.data_prefix THEN Pass(<<>>, FALSE, "")
    ELSE IF line.body = "blank" THEN Pass(<<>>, FALSE, "")
    ELSE IF ~IsJSON(line.body) THEN Pass(<<>>, FALSE, "")
    ELSE IF line.body = "gemini_text" THEN Pass(<<Chunk("gemini", TRUE, FALSE)>>, FALSE, "")
    ELSE Pass(<<>>, FALSE, "")

provider_line(provider, line) ==
    CASE provider = "groq" -> groq_line(line)
      [] provider = "ollama" -> ollama_line(line)
      [] provider = "gemini" -> gemini_line(line)

\* what the adapter yields after the async for has run out of lines
\* (gemini_provider.py:236; groq and ollama yield nothing there)
after_lines(provider) ==
    IF provider = "gemini" THEN <<Chunk("gemini", FALSE, TRUE)>> ELSE <<>>

\* groq_provider.py:145-147, gemini_provider.py:210-212, ollama_provider.py:147:
\* the exception the status of the response raises
status_raises(provider, status) ==
    IF status = 200 THEN ""
    ELSE IF status = 429 /\ provider \in {"groq", "gemini"} THEN "RateLimitError"
    ELSE "LLMError"

NoResponse == [provider |-> None, status |-> 200, lines |-> <<>>, broken |-> FALSE]

AdapterInit ==
    /\ sresp = NoResponse
    /\ sline = 1
    /\ sk = 0
    /\ syielded = <<>>
    /\ spc = "idle"

\* the responses of the model: a status, a body of lines, and whether the
\* connection breaks after the last of them
Responses ==
    [provider : ProviderNames, status : HttpStatuses,
     lines : UNION {[1..n -> Lines] : n \in 0..MaxLines}, broken : BOOLEAN]

\* prov.stream(...) is called and the request is answered
AdapterOpen(resp) ==
    /\ spc = "idle"
    /\ sresp' = resp
    /\ sline' = 1
    /\ sk' = 0
    /\ syielded' = <<>>
    /\ spc' = IF status_raises(resp.provider, resp.status) # ""
              THEN status_raises(resp.provider, resp.status) ELSE "reading"
    /\ UNCHANGED <<rvars, avars, cvars, evars, mvars, tvars>>

\* what the pass the generator is in does: the pass of the line at sline, or
\* what follows the loop when the lines are used up
CurrentPass ==
    IF sline <= Len(sresp.lines) THEN provider_line(sresp.provider, sresp.lines[sline])
    ELSE Pass(after_lines(sresp.provider), TRUE, "")

\* the pass is over: the generator goes to the next line, returns or raises
PassEnds(p) ==
    /\ sline' = sline + 1
    /\ sk' = 0
    /\ spc' = IF p.raises # "" THEN p.raises
              ELSE IF p.stop THEN "completed" ELSE "reading"

\* the generator reaches the k-th yield of its pass and is suspended there, the
\* chunk handed to the consumer
YieldsChunk(p, k) ==
    /\ syielded' = Append(syielded, p.yields[k])
    /\ sk' = k
    /\ spc' = "suspended"
    /\ UNCHANGED sline

\* one pass of async for line in resp.aiter_lines(), up to its first yield
AdapterLine ==
    /\ spc = "reading"
    /\ sline <= Len(sresp.lines)
    /\ IF CurrentPass.yields = <<>>
       THEN PassEnds(CurrentPass) /\ UNCHANGED syielded
       ELSE YieldsChunk(CurrentPass, 1)
    /\ UNCHANGED sresp
    /\ UNCHANGED <<rvars, avars, cvars, evars, mvars, tvars>>

\* aiter_lines has no more lines: the body ended, or the connection broke
AdapterBodyEnds ==
    /\ spc = "reading"
    /\ sline > Len(sresp.lines)
    /\ IF sresp.broken
       THEN /\ spc' = "LLMError"
            /\ UNCHANGED <<syielded, sline, sk>>
       ELSE IF CurrentPass.yields = <<>>
            THEN /\ spc' = "completed"
                 /\ UNCHANGED <<syielded, sline, sk>>
            ELSE YieldsChunk(CurrentPass, 1)
    /\ UNCHANGED sresp
    /\ UNCHANGED <<rvars, avars, cvars, evars, mvars, tvars>>

\* the consumer asks for the next chunk: the generator runs on from its yield,
\* to the next yield of the pass or to the end of the pass
AdapterResume ==
    /\ spc = "suspended"
    /\ IF sk < Len(CurrentPass.yields)
       THEN YieldsChunk(CurrentPass, sk + 1)
       ELSE PassEnds(CurrentPass) /\ UNCHANGED syielded
    /\ UNCHANGED sresp
    /\ UNCHANGED <<rvars, avars, cvars, evars, mvars, tvars>>

\* the consumer stops iterating (aclose): the generator ends at its yield
AdapterStop ==
    /\ spc = "suspended"
    /\ spc' = "closed"
    /\ UNCHANGED <<sresp, sline, sk, syielded>>
    /\ UNCHANGED <<rvars, avars, cvars, evars, mvars, tvars>>

\* the caller drops the generator
AdapterClose ==
    /\ spc \notin {"idle", "reading", "suspended"}
    /\ sresp' = NoResponse
    /\ sline' = 1
    /\ sk' = 0
    /\ syielded' = <<>>
    /\ spc' = "idle"
    /\ UNCHANGED <<rvars, avars, cvars, evars, mvars, tvars>>

(***************************************************************************)
(* EventBus (events.py)                                                    *)
(***************************************************************************)
EventTypes == {"llm.response", "app.ready"}

\* the handlers of the model are synchronous; h2 raises whenever it is called
Handlers == {"h1", "h2"}
Raises(h) == h = "h2"

\* a middleware returns the event or None; one that returns the event leaves
\* emit as it is without middleware, so the middleware of the model returns None
Middlewares == {"cancel"}

\* the callers of emit: 1, and 2 for an emit that starts while an emit of 1
\* is in progress (another thread, or a handler of that emit)
Threads == {1, 2}

\* an entry of self._handlers[event_type]: (handler, once); n tells the
\* subscriptions apart: it is the number of the on / once call that made it
Sub(h, is_once, n) == [h |-> h, once |-> is_once, n |-> n]

\* events.py:140-143 and 193-196: the entries of another handler
RECURSIVE without_handler_keeps_once(_, _)
without_handler_keeps_once(subs, h) ==
    IF subs = <<>> THEN <<>>
    ELSE (IF Head(subs).h = h /\ ~Head(subs).once THEN <<>> ELSE <<Head(subs)>>)
         \o without_handler_keeps_once(Tail(subs), h)
RECURSIVE without_handler(_, _)
without_handler(subs, h) ==
    IF subs = <<>> THEN <<>>
    ELSE (IF Head(subs).h = h THEN <<>> ELSE <<Head(subs)>>)
         \o without_handler(Tail(subs), h)

\* events.py:192-196: for handler in to_remove
RECURSIVE without_all(_, _)
without_all(subs, to_remove) ==
    IF to_remove = <<>> THEN subs
    ELSE without_all(without_handler(subs, Head(to_remove)), Tail(to_remove))

\* the frame of an emit call: its position (idle, event stored, calling the
\* handlers, or left
\* by an exception) and its locals
NoEmit == [pc |-> "idle", type |-> None, snapshot |-> <<>>, i |-> 1, to_remove |-> <<>>,
           invoked |-> <<>>]

\* events.py:117-121
BusInit ==
    /\ handlers = [et \in EventTypes |-> <<>>]
    /\ middleware = <<>>
    /\ bus_history = <<>>
    /\ emits = [t \in Threads |-> NoEmit]
    /\ nsubs = 0

\* events.py:123-130
on(event_type, handler) ==
    /\ nsubs < MaxSubs
    /\ handlers' = [handlers EXCEPT ![event_type] = Append(@, Sub(handler, FALSE, nsubs + 1))]
    /\ nsubs' = nsubs + 1
    /\ UNCHANGED <<middleware, bus_history, emits>>
    /\ UNCHANGED <<rvars, avars, cvars, svars, mvars, tvars>>

\* events.py:132-135
once(event_type, handler) ==
    /\ nsubs < MaxSubs
    /\ handlers' = [handlers EXCEPT ![event_type] = Append(@, Sub(handler, TRUE, nsubs + 1))]
    /\ nsubs' = nsubs + 1
    /\ UNCHANGED <<middleware, bus_history, emits>>
    /\ UNCHANGED <<rvars, avars, cvars, svars, mvars, tvars>>

HasEntry(event_type, handler) ==
    \E k \in 1..Len(handlers[event_type]) : handlers[event_type][k].h = handler

\* events.py:137-143; off for a handler without an entry changes nothing
off(event_type, handler) ==
    /\ HasEntry(event_type, handler)
    /\ handlers' = [handlers EXCEPT ![event_type] = without_handler(@, handler)]
    /\ UNCHANGED <<middleware, bus_history, emits, nsubs>>
    /\ UNCHANGED <<rvars, avars, cvars, svars, mvars, tvars>>

\* events.py:128-129: the function on returned calls off with on's arguments;
\* it is called here while an entry made by on is still there
unsubscribe(event_type, handler) ==
    /\ \E k \in 1..Len(handlers[event_type]) :
          handlers[event_type][k].h = handler /\ ~handlers[event_type][k].once
    /\ off(event_type, handler)

\* events.py:145-147
use(mw) ==
    /\ Len(middleware) < MaxMiddleware
    /\ middleware' = Append(middleware, mw)
    /\ UNCHANGED <<handlers, bus_history, emits, nsubs>>
    /\ UNCHANGED <<rvars, avars, cvars, svars, mvars, tvars>>

\* events.py:198-204: every EventType is a non-empty str, so a given type
\* clears that type and None clears all
clear(event_type) ==
    /\ handlers # [et \in EventTypes |-> <<>>]
    /\ handlers' = IF event_type # None THEN [handlers EXCEPT ![event_type] = <<>>]
                   ELSE [et \in EventTypes |-> <<>>]
    /\ UNCHANGED <<middleware, bus_history, emits, nsubs>>
    /\ UNCHANGED <<rvars, avars, cvars, svars, mvars, tvars>>

\* events.py:158-161
Cancelled == \E k \in 1..Len(middleware) : middleware[k] = "cancel"

\* events.py:155-164: the middleware and the history; the event is stored
\* before emit asks for the lock
EmitStart(t, event_type) ==
    /\ emits[t].pc = "idle"
    /\ t = 1 \/ emits[1].pc # "idle"
    /\ IF Cancelled
       THEN UNCHANGED <<emits, bus_history>>
       ELSE /\ Len(bus_history) < MaxEmits
            /\ emits' = [emits EXCEPT ![t] =
                  [NoEmit EXCEPT !.pc = "stored", !.type = event_type]]
            /\ bus_history' = Append(bus_history, event_type)
    /\ UNCHANGED <<handlers, middleware, nsubs>>
    /\ UNCHANGED <<rvars, avars, cvars, svars, mvars, tvars>>

\* events.py:167-168: the snapshot of the handlers, taken under the lock
EmitSnapshot(t) ==
    /\ emits[t].pc = "stored"
    /\ emits' = [emits EXCEPT ![t].pc = "calling",
                              ![t].snapshot = handlers[emits[t].type]]
    /\ UNCHANGED <<handlers, middleware, bus_history, nsubs>>
    /\ UNCHANGED <<rvars, avars, cvars, svars, mvars, tvars>>

\* events.py:186-187: what emit does when the handler raised
on_handler_exception_propagates(frame) ==
    [NoEmit EXCEPT !.pc = "raised"]
on_handler_exception(frame) == [frame EXCEPT !.i = @ + 1]

\* events.py:172-187: one pass of for handler, is_once in handlers
EmitCall(t) ==
    /\ emits[t].pc = "calling"
    /\ emits[t].i <= Len(emits[t].snapshot)
    /\ LET s == emits[t].snapshot[emits[t].i]
           called == [emits[t] EXCEPT !.invoked = Append(@, s.h)]
       IN emits' = [emits EXCEPT ![t] =
             IF Raises(s.h) THEN on_handler_exception(called)
             ELSE [called EXCEPT !.i = @ + 1,
                                 !.to_remove = IF s.once THEN Append(@, s.h) ELSE @]]
    /\ UNCHANGED <<handlers, middleware, bus_history, nsubs>>
    /\ UNCHANGED <<rvars, avars, cvars, svars, mvars, tvars>>

\* events.py:189-196: the one-time handlers are removed and emit returns
EmitReturn(t) ==
    /\ emits[t].pc = "calling"
    /\ emits[t].i > Len(emits[t].snapshot)
    /\ handlers' = [handlers EXCEPT ![emits[t].type] = without_all(@, emits[t].to_remove)]
    /\ emits' = [emits EXCEPT ![t] = NoEmit]
    /\ UNCHANGED <<middleware, bus_history, nsubs>>
    /\ UNCHANGED <<rvars, avars, cvars, svars, mvars, tvars>>

(***************************************************************************)
(* Conversation and ConversationManager (memory/conversation.py)           *)
(***************************************************************************)
\* the ids of the model, in the order uuid.uuid4().hex[:12] hands them out
ConversationIdOrder == <<"c1", "c2", "c3", "c4">>
ConversationIds == {ConversationIdOrder[k] : k \in 1..Len(ConversationIdOrder)}

NewChat == <<"New Chat">>

\* conversation.py:17-26; the timestamps are the moments of the model:
\* creation, or the add_message that made the n-th message
Conversation(id, title, msgs, created_at, updated_at, model, provider) ==
    [id |-> id, title |-> title, messages |-> msgs, created_at |-> created_at,
     updated_at |-> updated_at, model |-> model, provider |-> provider]

Created == [at |-> "created", n |-> 0]
Updated(n) == [at |-> "add_message", n |-> n]

\* the texts of the manager's messages are sequences of characters
Hello == <<"H", "e", "l", "l", "o">>
LongText == [i \in 1..41 |-> "A"]
ImageUrl == <<"d", "a", "t", "a", ":">>

\* the messages handed to add_message: a padded text, a text of 41 characters,
\* a text with an image, and a tool result
ManagerMessages ==
    { Message_user(<<" ", " ">> \o Hello \o <<" ">>),
      Message_user(LongText),
      Message_user_with_image(Hello),
      Message_tool(<<"Opened Chrome">>, "system_control", <<"srv", "a">>) }

\* base.py:28-37: Message.to_dict; a key is there only for a truthy value
Message_to_dict(msg) ==
    [role |-> msg.role, content |-> [str |-> msg.str, is_list |-> msg.is_list,
                                     parts |-> msg.parts],
     keys |-> {"role", "content"}
              \cup (IF msg.name # None THEN {"name"} ELSE {})
              \cup (IF msg.tool_calls # <<>> THEN {"tool_calls"} ELSE {})
              \cup (IF msg.tool_call_id # <<>> THEN {"tool_call_id"} ELSE {}),
     name |-> msg.name, tool_calls |-> msg.tool_calls, tool_call_id |-> msg.tool_call_id]

\* conversation.py:57-61: Message(role=Role(m["role"]), content=m["content"],
\* name=m.get("name"))
Message_from_dict(d) ==
    [Message(d.role, d.content.str, d.content.is_list, d.content.parts) EXCEPT
        !.name = IF "name" \in d.keys THEN d.name ELSE None]

\* conversation.py:41-51
to_dict(c) ==
    [id |-> c.id, title |-> c.title,
     messages |-> [k \in 1..Len(c.messages) |-> Message_to_dict(c.messages[k])],
     created_at |-> c.created_at, updated_at |-> c.updated_at, model |-> c.model,
     provider |-> c.provider, message_count |-> Len(c.messages)]

\* conversation.py:53-70
from_dict(data) ==
    Conversation(data.id, data.title,
                 [k \in 1..Len(data.messages) |-> Message_from_dict(data.messages[k])],
                 data.created_at, data.updated_at, data.model, data.provider)

\* str(part) of a part of a multimodal content: the repr of its dict (the texts
\* of the model hold no quote and no backslash)
part_repr(p) ==
    IF p.type = "text"
    THEN <<"{", "'", "t", "y", "p", "e", "'", ":", " ", "'", "t", "e", "x", "t", "'", ",", " ", "'", "t", "e", "x", "t", "'", ":", " ", "'">> \o p.text \o <<"'", "}">>
    ELSE <<"{", "'", "t", "y", "p", "e", "'", ":", " ", "'", "i", "m", "a", "g", "e", "_", "u", "r", "l", "'", ",", " ", "'", "i", "m", "a", "g", "e", "_", "u", "r", "l", "'", ":", " ", "{", "'", "u", "r", "l", "'", ":", " ", "'">> \o ImageUrl \o <<"'", "}", "}">>

\* str(content) of a list content: "[", the parts separated by ", ", "]"
RECURSIVE parts_repr(_)
parts_repr(ps) ==
    IF ps = <<>> THEN <<>>
    ELSE part_repr(Head(ps)) \o (IF Len(ps) > 1 THEN <<",", " ">> ELSE <<>>)
         \o parts_repr(Tail(ps))
list_str(ps) == <<"[">> \o parts_repr(ps) \o <<"]">>

\* str.strip() on a sequence of characters
Space == {" ", "\t", "\n"}
RECURSIVE str_lstrip(_)
str_lstrip(t) == IF t # <<>> /\ Head(t) \in Space THEN str_lstrip(Tail(t)) ELSE t
RECURSIVE str_rstrip(_)
str_rstrip(t) == IF t # <<>> /\ t[Len(t)] \in Space
                 THEN str_rstrip(SubSeq(t, 1, Len(t) - 1)) ELSE t
str_strip(t) == str_rstrip(str_lstrip(t))

\* conversation.py:76-81: the title made of the text of a user message
title_of(msg) ==
    LET text == str_strip(IF msg.is_list THEN list_str(msg.parts) ELSE msg.str)
    IN  IF Len(text) > 40 THEN SubSeq(text, 1, 40) \o <<".", ".", ".">> ELSE text

\* conversation.py:72-83: the title is made of the first user message; without
\* one the title is set to "New Chat"
RECURSIVE auto_title(_)
auto_title(msgs) ==
    IF msgs = <<>> THEN NewChat
    ELSE IF Head(msgs).role = "user" THEN title_of(Head(msgs))
    ELSE auto_title(Tail(msgs))

StoredIds == {conversations[k].id : k \in 1..Len(conversations)}

IndexOf(id) == CHOOSE k \in 1..Len(conversations) : conversations[k].id = id

\* conversation.py:111-115: the index of the active conversation, or 0
get_active ==
    IF active_id # None /\ active_id \in StoredIds THEN IndexOf(active_id) ELSE 0

\* uuid.uuid4().hex[:12]: an id no stored conversation has
fresh_id ==
    ConversationIdOrder[CHOOSE k \in 1..Len(ConversationIdOrder) :
                           /\ ConversationIdOrder[k] \notin StoredIds
                           /\ \A j \in 1..(k - 1) : ConversationIdOrder[j] \in StoredIds]

\* the last operation of the manager: its argument, what it returned, and the
\* active id it started from
Op(name, arg, ret) ==
    [op |-> name, arg |-> arg, ret |-> ret, active_before |-> active_id,
     known |-> arg \in StoredIds]

\* conversation.py:92-96
ManagerInit ==
    /\ conversations = <<>>
    /\ active_id = None
    /\ last_op = [op |-> "init", arg |-> None, ret |-> None, active_before |-> None,
                  known |-> FALSE]
    /\ restored = <<>>

\* conversation.py:102-109
new_conversation ==
    /\ Len(conversations) < MaxConversations
    /\ conversations' = Append(conversations,
           Conversation(fresh_id, NewChat, <<>>, Created, Created, "", ""))
    /\ active_id' = fresh_id
    /\ last_op' = Op("new_conversation", None, fresh_id)
    /\ restored' = <<>>
    /\ UNCHANGED <<rvars, avars, cvars, svars, evars, tvars>>

\* conversation.py:117-127
switch_to(conversation_id) ==
    /\ IF conversation_id \in StoredIds
       THEN /\ active_id' = conversation_id
            /\ last_op' = Op("switch_to", conversation_id, conversation_id)
       ELSE /\ UNCHANGED active_id
            /\ last_op' = Op("switch_to", conversation_id, None)
    /\ restored' = <<>>
    /\ UNCHANGED conversations
    /\ UNCHANGED <<rvars, avars, cvars, svars, evars, tvars>>

\* conversation.py:134-139: the append, the timestamp and the title
with_message(c, msg) ==
    LET msgs == Append(c.messages, msg)
    IN  [c EXCEPT !.messages = msgs,
                  !.updated_at = Updated(Len(msgs)),
                  !.title = IF Len(msgs) = 1 THEN auto_title(msgs) ELSE @]

\* conversation.py:129-139
add_message(msg) ==
    /\ IF get_active # 0
       THEN /\ Len(conversations[get_active].messages) < MaxMessages
            /\ conversations' = [conversations EXCEPT ![get_active] = with_message(@, msg)]
            /\ UNCHANGED active_id
       ELSE /\ Len(conversations) < MaxConversations
            /\ conversations' = Append(conversations,
                  with_message(Conversation(fresh_id, NewChat, <<>>, Created, Created, "", ""),
                               msg))
            /\ active_id' = fresh_id
    /\ last_op' = Op("add_message", None, None)
    /\ restored' = <<>>
    /\ UNCHANGED <<rvars, avars, cvars, svars, evars, tvars>>

\* conversation.py:145-146: the active id after the conversation was deleted
active_after_delete_keeps(convs, active, conversation_id) == active
active_after_delete(convs, active, conversation_id) ==
    IF active = conversation_id
    THEN (IF convs = <<>> THEN None ELSE convs[1].id)
    ELSE active

\* conversation.py:141-148
delete_conversation(conversation_id) ==
    /\ IF conversation_id \in StoredIds
       THEN LET keep(c) == c.id # conversation_id
                rest == SelectSeq(conversations, keep)
            IN /\ conversations' = rest
               /\ active_id' = active_after_delete(rest, active_id, conversation_id)
               /\ last_op' = Op("delete_conversation", conversation_id, "True")
       ELSE /\ UNCHANGED <<conversations, active_id>>
            /\ last_op' = Op("delete_conversation", conversation_id, "False")
    /\ restored' = <<>>
    /\ UNCHANGED <<rvars, avars, cvars, svars, evars, tvars>>

\* conversation.py:182-188
clear_active ==
    /\ conversations' = IF get_active # 0
                        THEN [conversations EXCEPT ![get_active].messages = <<>>,
                                                   ![get_active].title = NewChat]
                        ELSE conversations
    /\ last_op' = Op("clear_active", None, None)
    /\ restored' = <<>>
    /\ UNCHANGED active_id
    /\ UNCHANGED <<rvars, avars, cvars, svars, evars, tvars>>

\* Conversation.from_dict(c.to_dict()) for a stored conversation c
RoundTrip(k) ==
    /\ k \in 1..Len(conversations)
    /\ restored' = <<[original |-> conversations[k],
                      restored |-> from_dict(to_dict(conversations[k]))]>>
    /\ last_op' = Op("from_dict", conversations[k].id, conversations[k].id)
    /\ UNCHANGED <<conversations, active_id>>
    /\ UNCHANGED <<rvars, avars, cvars, svars, evars, tvars>>

(***************************************************************************)
(* Specifications                                                          *)
(***************************************************************************)
RouterNext ==
    \/ \E rp \in RequestedProviders, rm \in RequestedModels,
          ms \in RouterMessageLists, ar \in BOOLEAN : GenerateStart(rp, rm, ms, ar)
    \/ GenerateSkip
    \/ GenerateInvoke
    \/ \E oc \in ProviderOutcomes : GenerateAttempt(oc)
    \/ GenerateExhausted
    \/ \E rp \in RequestedProviders, rm \in RequestedModels,
          ms \in RouterMessageLists, ar \in BOOLEAN : StreamStart(rp, rm, ms, ar)
    \/ StreamSkip
    \/ StreamOpen
    \/ \E f \in BOOLEAN : StreamYield(f)
    \/ StreamEnd
    \/ \E k \in ErrorKinds : StreamRaise(k)
    \/ StreamExhausted
    \/ RouterReturn
    \/ \E ok \in BOOLEAN : InitializeProvider(ok)
    \/ InitializeFinish
    \/ \E p \in ProviderNames, m \in RequestedModels : switch_provider(p, m)
    \/ \E m \in RequestedModels \ {None} : switch_model(m)
    \/ shutdown

(***************************************************************************)
(* Timers and alarms (agent/tools/timer_alarm.py)                          *)
(***************************************************************************)
\* the label argument of set_timer, set_alarm and cancel_timer
Labels == {"", "tea"}

\* the duration argument of set_timer: none, text without a number, seconds
Durations == {"", "soon", "90"}

\* timer_alarm.py:27-53
parse_duration(text) ==
    IF text = "90" THEN 90 ELSE 0

\* timer_alarm.py:206 / 277: f"timer_{int(time.time())}_{label or 'default'}" and
\* f"alarm_{int(time.time())}_{display_label}"
timer_id(kind, clock, name) == <<kind, clock, name>>

\* timer_alarm.py:207 / 276: label or "Timer", label or "Alarm"
display_label(label, default) == IF label # "" THEN label ELSE default

\* timer_alarm.py:228: label.lower() in v["label"].lower(); of the labels of the
\* model, "tea" is contained in "tea" and in neither "Timer" nor "Alarm"
label_matches(label, stored) == label = stored

\* timer_alarm.py:107-114: a thread is sleeping, has left the locked block
\* (found: its id was among the active timers there) or has notified;
\* cancelled records that cancel_timer removed the entry of its id before it woke
TimerThread(id, label) ==
    [id |-> id, label |-> label, pc |-> "sleeping", found |-> FALSE, cancelled |-> FALSE]

TimerInit ==
    /\ active_timers = <<>>
    /\ timer_calls = <<>>
    /\ timer_threads = <<>>
    /\ notifications = <<>>
    /\ now = 0
    /\ timer_result = "none"

\* the dict after d[id] = info
dict_set(d, id, info) == [k \in (DOMAIN d) \cup {id} |-> IF k = id THEN info ELSE d[k]]

\* the dict after del d[k] for every k of ids
dict_del(d, ids) == [k \in (DOMAIN d) \ ids |-> d[k]]

\* timer_alarm.py:208-213 / 279-284: the entry is stored under the lock; the
\* call goes on to start its thread
StoreTimer(id, stored, thread_label, seconds, output) ==
    /\ active_timers' = dict_set(active_timers, id, [label |-> stored, seconds |-> seconds])
    /\ timer_calls' = Append(timer_calls,
                             [thread |-> TimerThread(id, thread_label), output |-> output])

\* timer_alarm.py:199-213: _set_timer up to the release of the lock
set_timer(duration, label) ==
    /\ Len(timer_threads) + Len(timer_calls) < MaxTimers
    /\ IF duration = ""
       THEN /\ timer_result' = "No duration specified."
            /\ UNCHANGED <<active_timers, timer_calls>>
       ELSE IF parse_duration(duration) = 0
            THEN /\ timer_result' = "Could not parse duration"
                 /\ UNCHANGED <<active_timers, timer_calls>>
            ELSE /\ StoreTimer(timer_id("timer", now, display_label(label, "default")),
                               display_label(label, "Timer"),
                               display_label(label, "Timer"),
                               parse_duration(duration),
                               "Timer set")
                 /\ UNCHANGED timer_result
    /\ UNCHANGED <<timer_threads, notifications, now>>
    /\ UNCHANGED <<rvars, avars, cvars, svars, evars, mvars>>

\* timer_alarm.py:250-284, for a time string one of the formats parses:
\* _set_alarm up to the release of the lock
set_alarm(label) ==
    /\ Len(timer_threads) + Len(timer_calls) < MaxTimers
    /\ StoreTimer(timer_id("alarm", now, display_label(label, "Alarm")),
                  display_label(label, "Alarm"),
                  "bell " \o display_label(label, "Alarm"),
                  60,
                  "Alarm set")
    /\ UNCHANGED <<timer_threads, notifications, now, timer_result>>
    /\ UNCHANGED <<rvars, avars, cvars, svars, evars, mvars>>

\* the sequence without its k-th element
RemoveAt(q, k) == SubSeq(q, 1, k - 1) \o SubSeq(q, k + 1, Len(q))

\* timer_alarm.py:214-221 / 286-300: the call starts its thread and returns
TimerThreadStarts(k) ==
    /\ k \in 1..Len(timer_calls)
    /\ timer_threads' = Append(timer_threads, timer_calls[k].thread)
    /\ timer_calls' = RemoveAt(timer_calls, k)
    /\ timer_result' = timer_calls[k].output
    /\ UNCHANGED <<active_timers, notifications, now>>
    /\ UNCHANGED <<rvars, avars, cvars, svars, evars, mvars>>

\* timer_alarm.py:227-230: the keys cancel_timer removes
to_remove(label) ==
    IF label # ""
    THEN {k \in DOMAIN active_timers : label_matches(label, active_timers[k].label)}
    ELSE DOMAIN active_timers

\* timer_alarm.py:223-234
cancel_timer(label) ==
    /\ IF DOMAIN active_timers = {}
       THEN /\ timer_result' = "No active timers to cancel."
            /\ UNCHANGED <<active_timers, timer_threads, timer_calls>>
       ELSE /\ active_timers' = dict_del(active_timers, to_remove(label))
            /\ timer_threads' =
                  [k \in 1..Len(timer_threads) |->
                     IF timer_threads[k].pc = "sleeping" /\ timer_threads[k].id \in to_remove(label)
                     THEN [timer_threads[k] EXCEPT !.cancelled = TRUE]
                     ELSE timer_threads[k]]
            /\ timer_calls' =
                  [k \in 1..Len(timer_calls) |->
                     IF timer_calls[k].thread.id \in to_remove(label)
                     THEN [timer_calls[k] EXCEPT !.thread.cancelled = TRUE]
                     ELSE timer_calls[k]]
            /\ timer_result' = IF to_remove(label) = {} THEN "Cancelled 0 timer(s)"
                               ELSE "Cancelled timer(s)"
    /\ UNCHANGED <<notifications, now>>
    /\ UNCHANGED <<rvars, avars, cvars, svars, evars, mvars>>

\* timer_alarm.py:236-248
list_timers ==
    /\ timer_result' = IF DOMAIN active_timers = {} THEN "No active timers."
                       ELSE "Active timers:"
    /\ UNCHANGED <<active_timers, timer_calls, timer_threads, notifications, now>>
    /\ UNCHANGED <<rvars, avars, cvars, svars, evars, mvars>>

\* timer_alarm.py:109-112: time.sleep returns and the thread runs the locked
\* block, deleting its id if it is there
TimerWakes(k) ==
    /\ k \in 1..Len(timer_threads)
    /\ timer_threads[k].pc = "sleeping"
    /\ timer_threads' = [timer_threads EXCEPT
                           ![k].pc = "woke",
                           ![k].found = timer_threads[k].id \in DOMAIN active_timers]
    /\ active_timers' = dict_del(active_timers, {timer_threads[k].id})
    /\ UNCHANGED <<timer_calls, notifications, now, timer_result>>
    /\ UNCHANGED <<rvars, avars, cvars, svars, evars, mvars>>

\* timer_alarm.py:113: _notify("Timer Done!", ...)
TimerNotifies(k) ==
    /\ k \in 1..Len(timer_threads)
    /\ timer_threads[k].pc = "woke"
    /\ timer_threads' = [timer_threads EXCEPT ![k].pc = "done"]
    /\ notifications' = Append(notifications, timer_threads[k].label)
    /\ UNCHANGED <<active_timers, timer_calls, now, timer_result>>
    /\ UNCHANGED <<rvars, avars, cvars, svars, evars, mvars>>

\* a second passes
Tick ==
    /\ now < MaxClock
    /\ now' = now + 1
    /\ UNCHANGED <<active_timers, timer_calls, timer_threads, notifications, timer_result>>
    /\ UNCHANGED <<rvars, avars, cvars, svars, evars, mvars>>

XInit == AdapterInit /\ BusInit /\ ManagerInit /\ TimerInit

InitRouter == RouterInit /\ AgentInit /\ ClassifyInit /\ XInit

SpecRouter == InitRouter /\ [][RouterNext]_vars

AgentNext ==
    \/ \E rc \in RagContexts, sc \in Scripts : process(rc, sc)
    \/ \E rc \in RagContexts, sc \in Scripts : stream_process(rc, sc)
    \/ GenerateRaises
    \/ ExtractRaises
    \/ RespondsFinal
    \/ RespondsToolCalls
    \/ \E i \in 1..(MaxToolCalls + 1) : ToolCompletes(i)
    \/ GatherReturns
    \/ StreamForward
    \/ StreamResume
    \/ StreamCompletes
    \/ \E e \in StreamErrorTexts : StreamFails(e)
    \/ StreamErrorResume
    \/ StreamClose
    \/ process_with_image_missing
    \/ \E sc \in Scripts : process_with_image(sc)
    \/ \E ok \in BOOLEAN : ImageResponds(ok)
    \/ TurnReturns
    \/ clear_history
    \/ \E tool \in CustomTools : register_tool(tool)

\* the agent runs against a router with the source's default settings and all
\* three providers initialized
InitAgent ==
    /\ RouterInitialized
    /\ settings = [default_provider |-> "groq", fallback_provider |-> "gemini"]
    /\ providers = ProviderNames
    /\ AgentInit
    /\ ClassifyInit
    /\ XInit

SpecAgent == InitAgent /\ [][AgentNext]_vars

(***************************************************************************)
(* SpecTurn: process and process_with_image turns with their               *)
(* Router.generate calls run through the router, one step per candidate    *)
(* provider.                                                               *)
(***************************************************************************)
\* agent.py:177-180 / 130-133: the turn's call enters Router.generate, with no
\* provider and no model named and auto_route on
TurnCallsGenerate ==
    /\ apc = "generate"
    /\ turn.kind \in {"process", "image"}
    /\ GenerateStart(None, None, messages, TRUE)

\* the outcomes of a provider call in SpecTurn
TurnOutcomes == {"ok", "llmerror"}

\* Router.generate has raised AllProvidersFailedError into the turn
TurnGenerateRaised ==
    /\ rpc = "raised"
    /\ GenerateRaisesStep
    /\ RouterReturnStep
    /\ UNCHANGED <<cvars, xvars>>

\* Router.generate has returned a response to the turn
TurnExtractRaises ==
    /\ rpc = "returned"
    /\ ExtractRaisesStep
    /\ RouterReturnStep
    /\ UNCHANGED <<cvars, xvars>>

TurnRespondsFinal ==
    /\ rpc = "returned"
    /\ RespondsFinalStep
    /\ RouterReturnStep
    /\ UNCHANGED <<cvars, xvars>>

TurnRespondsToolCalls ==
    /\ rpc = "returned"
    /\ RespondsToolCallsStep
    /\ RouterReturnStep
    /\ UNCHANGED <<cvars, xvars>>

TurnImageResponds(ok) ==
    /\ rpc = (IF ok THEN "returned" ELSE "raised")
    /\ ImageRespondsStep(ok)
    /\ RouterReturnStep
    /\ UNCHANGED <<cvars, xvars>>

TurnNext ==
    \/ \E rc \in RagContexts, sc \in Scripts : process(rc, sc)
    \/ \E sc \in Scripts : process_with_image(sc)
    \/ process_with_image_missing
    \/ TurnCallsGenerate
    \/ GenerateInvoke
    \/ \E oc \in TurnOutcomes : GenerateAttempt(oc)
    \/ GenerateExhausted
    \/ TurnGenerateRaised
    \/ TurnExtractRaises
    \/ TurnRespondsFinal
    \/ TurnRespondsToolCalls
    \/ \E ok \in BOOLEAN : TurnImageResponds(ok)
    \/ \E i \in 1..(MaxToolCalls + 1) : ToolCompletes(i)
    \/ GatherReturns
    \/ TurnReturns
    \/ clear_history
    \/ \E tool \in CustomTools : register_tool(tool)

\* the router is initialized with all three providers, under each of the
\* settings
InitTurn ==
    /\ RouterInitialized
    /\ providers = ProviderNames
    /\ AgentInit
    /\ ClassifyInit
    /\ XInit

SpecTurn == InitTurn /\ [][TurnNext]_vars

ClassifyNext == \E t \in Texts, hi \in BOOLEAN : Classify(t, hi)

InitClassify ==
    /\ RouterInitialized
    /\ settings = [default_provider |-> "groq", fallback_provider |-> "gemini"]
    /\ providers = ProviderNames
    /\ AgentInit
    /\ ClassifyInit
    /\ XInit

SpecClassify == InitClassify /\ [][ClassifyNext]_vars

AdapterNext ==
    \/ \E resp \in Responses : AdapterOpen(resp)
    \/ AdapterLine
    \/ AdapterBodyEnds
    \/ AdapterResume
    \/ AdapterStop
    \/ AdapterClose

InitAdapter ==
    /\ RouterInitialized
    /\ settings = [default_provider |-> "groq", fallback_provider |-> "gemini"]
    /\ providers = ProviderNames
    /\ AgentInit
    /\ ClassifyInit
    /\ XInit

SpecAdapter == InitAdapter /\ [][AdapterNext]_vars

BusNext ==
    \/ \E et \in EventTypes, h \in Handlers : on(et, h)
    \/ \E et \in EventTypes, h \in Handlers : once(et, h)
    \/ \E et \in EventTypes, h \in Handlers : off(et, h)
    \/ \E et \in EventTypes, h \in Handlers : unsubscribe(et, h)
    \/ \E mw \in Middlewares : use(mw)
    \/ \E et \in EventTypes \cup {None} : clear(et)
    \/ \E t \in Threads, et \in EventTypes : EmitStart(t, et)
    \/ \E t \in Threads : EmitSnapshot(t)
    \/ \E t \in Threads : EmitCall(t)
    \/ \E t \in Threads : EmitReturn(t)

SpecBus == InitAdapter /\ [][BusNext]_vars

ManagerNext ==
    \/ new_conversation
    \/ \E id \in ConversationIds : switch_to(id)
    \/ \E msg \in ManagerMessages : add_message(msg)
    \/ \E id \in ConversationIds : delete_conversation(id)
    \/ clear_active
    \/ \E k \in 1..MaxConversations : RoundTrip(k)

SpecManager == InitAdapter /\ [][ManagerNext]_vars

TimerNext ==
    \/ \E d \in Durations, l \in Labels : set_timer(d, l)
    \/ \E l \in Labels : set_alarm(l)
    \/ \E k \in 1..MaxTimers : TimerThreadStarts(k)
    \/ \E l \in Labels : cancel_timer(l)
    \/ list_timers
    \/ \E k \in 1..MaxTimers : TimerWakes(k)
    \/ \E k \in 1..MaxTimers : TimerNotifies(k)
    \/ Tick

SpecTimer == InitAdapter /\ [][TimerNext]_vars


(***************************************************************************)
(* Properties of the router                                                *)
(***************************************************************************)
RECURSIVE Without(_, _)
Without(s, x) == IF s = <<>> THEN <<>>
                 ELSE (IF Head(s) = x THEN <<>> ELSE <<Head(s)>>) \o Without(Tail(s), x)

RECURSIVE Only(_, _)
Only(s, S) == IF s = <<>> THEN <<>>
              ELSE (IF Head(s) \in S THEN <<Head(s)>> ELSE <<>>) \o Only(Tail(s), S)

IsPrefix(s, t) == Len(s) <= Len(t) /\ \A i \in 1..Len(s) : s[i] = t[i]

InvokedProviders == [i \in 1..Len(invoked) |-> invoked[i].provider]

\* the failover order as the specification describes it: each initialized provider
\* once, the preferred provider first, the fallback provider next
FailoverOrderAsSpecified ==
    /\ \A i \in 1..Len(failover_order) : failover_order[i] \in providers
    /\ \A p \in providers :
          Cardinality({i \in 1..Len(failover_order) : failover_order[i] = p}) = 1
    /\ settings.default_provider \in providers => failover_order[1] = settings.default_provider
    /\ (settings.fallback_provider \in providers
        /\ settings.fallback_provider # settings.default_provider)
          => failover_order[IF settings.default_provider \in providers THEN 2 ELSE 1]
                = settings.fallback_provider

\* the candidates of the call in flight, in the order the specification gives
ExpectedTryOrder ==
    Only((IF call.provider # None THEN <<call.provider>> ELSE <<>>)
            \o Without(failover_order, call.provider),
         providers)

Finished == rpc \in {"returned", "raised"}

\* C1: in one Router.generate call the candidates are tried requested provider
\* first, then the failover order (preferred, fallback, remaining initialized)
\* without the requested provider, and each initialized provider is invoked at
\* most once, whatever errors the earlier candidates raised. (The failover order
\* is the one a completed initialize() builds, as long as shutdown() has not
\* emptied the provider map; the candidates are compared with it for a call
\* during which neither the provider map nor the failover order changed.)
C1_TryOrder ==
    /\ (ipc = "done" /\ providers # {}) => FailoverOrderAsSpecified
    /\ call.kind = "generate" =>
          /\ \A i, j \in 1..Len(invoked) : invoked[i].provider = invoked[j].provider => i = j
          /\ ~call.disturbed =>
                /\ IsPrefix(InvokedProviders, ExpectedTryOrder)
                /\ (rpc = "raised" => InvokedProviders = ExpectedTryOrder)

C1_Witness ==
    /\ call.kind = "generate"
    /\ ipc = "done"
    /\ ~call.disturbed
    /\ rpc = "returned"
    /\ Len(invoked) = 3
    /\ call.provider # failover_order[1]
    /\ invoked[1].provider = call.provider
    /\ invoked[1].outcome = "ratelimit"
    /\ invoked[2].outcome = "llmerror"
    /\ result.provider = invoked[3].provider

\* C2: Router.generate returns the response of the first candidate whose generate
\* succeeds, and after that success no later candidate is invoked in that call.
C2_FirstSuccessReturns ==
    call.kind = "generate" =>
        /\ \A i \in 1..Len(invoked) :
              invoked[i].outcome = "ok" =>
                 /\ i = Len(invoked)
                 /\ rpc = "returned"
                 /\ result = Response(invoked[i].provider, invoked[i].model)
        /\ rpc = "returned" =>
              /\ invoked # <<>>
              /\ invoked[Len(invoked)].outcome = "ok"

C2_Witness ==
    /\ call.kind = "generate"
    /\ rpc = "returned"
    /\ Len(invoked) = 2
    /\ Len(ExpectedTryOrder) = 3
    /\ result.provider = ExpectedTryOrder[2]

\* C3: if every candidate raises (RateLimitError, LLMError or another exception),
\* Router.generate raises AllProvidersFailed: it returns no response and no other
\* exception escapes it.
C3_AllFailedRaises ==
    (call.kind = "generate" /\ Finished) =>
        /\ (\A i \in 1..Len(invoked) : invoked[i].outcome # "ok")
              => (rpc = "raised" /\ result.type = "AllProvidersFailedError")
        /\ rpc = "raised" => result.type = "AllProvidersFailedError"
        /\ rpc = "returned" => result.type = "response"

C3_Witness ==
    /\ call.kind = "generate"
    /\ rpc = "raised"
    /\ Len(invoked) = 3
    /\ invoked[1].outcome = "other"
    /\ invoked[2].outcome = "ratelimit"
    /\ invoked[3].outcome = "llmerror"

\* C4 as claimed: the AllProvidersFailed error raised by Router.generate carries
\* the per-provider error list of the call.
C4_ExceptionCarriesErrors ==
    (call.kind = "generate" /\ rpc = "raised") =>
        /\ "errors" \in DOMAIN result
        /\ result.errors = errors

LastEvent == bus[Len(bus)]

\* C4 as amended: the AllProvidersFailed error raised by Router.generate carries
\* only a fixed message and code; the per-provider error list of the call, one
\* entry for each candidate tried and failed in the order tried, is carried by the
\* LLM_ERROR notification emitted right before the error is raised.
C4_ErrorsInNotification ==
    (call.kind = "generate" /\ rpc = "raised") =>
        /\ DOMAIN result = {"type", "message", "code"}
        /\ result.message = "All LLM providers failed"
        /\ LastEvent.type = "LLM_ERROR"
        /\ Len(LastEvent.errors) = Len(invoked)
        /\ \A i \in 1..Len(invoked) :
              /\ LastEvent.errors[i].provider = invoked[i].provider
              /\ LastEvent.errors[i].text = ErrorText(invoked[i].outcome)

C4_Witness ==
    /\ call.kind = "generate"
    /\ rpc = "raised"
    /\ Len(invoked) = 2
    /\ invoked[1].outcome = "ratelimit"
    /\ invoked[2].outcome = "llmerror"
    /\ Len(LastEvent.errors) = 2

\* the tier of the latest User message: its text parts classified together with
\* has_image
LatestUserTier == classify_query(RouteUserText(call.messages), RouteHasImage(call.messages))

\* C5: in Router.generate every candidate other than the requested provider is
\* called with its own model for the tier of the latest User message (text parts
\* together with has_image for a multimodal message); a candidate so called gets
\* an id of its own row of the tier table and not the requested provider's id.
C5_FailoverTierModel ==
    call.kind = "generate" =>
        \A i \in 1..Len(invoked) :
            invoked[i].provider # call.provider =>
                invoked[i].model = TIER_MODELS[LatestUserTier][invoked[i].provider]

\* C6: in one Router.stream call, once a provider has yielded a chunk no other
\* provider is invoked, so all chunks the caller receives come from one provider.
C6_SingleProviderStream ==
    call.kind = "stream" =>
        /\ \A i, j \in 1..Len(chunks) : chunks[i].provider = chunks[j].provider
        /\ chunks # <<>> => invoked[Len(invoked)].provider = chunks[1].provider

\* C7: Router.stream tries the same candidates in the same order with the same
\* model ids as Router.generate, falls through to the next candidate on every
\* kind of exception generate falls through on when no chunk was produced, and
\* raises AllProvidersFailed when all candidates are exhausted.
C7_StreamLikeGenerate ==
    (call.kind = "stream" /\ ~call.disturbed) =>
        /\ IsPrefix(InvokedProviders, ExpectedTryOrder)
        /\ \A i \in 1..Len(invoked) :
              invoked[i].model =
                 GenerateUseModel(invoked[i].provider, call.provider, call.model, call.messages)
        /\ (rpc = "raised" /\ chunks = <<>>) => result.type = "AllProvidersFailedError"
        /\ (rpc = "trying" /\ idx > Len(providers_to_try)) => InvokedProviders = ExpectedTryOrder


(***************************************************************************)
(* Properties of the agent                                                 *)
(***************************************************************************)
\* C8: one process turn makes at most MAX_ITERATIONS Router.generate calls and
\* then ends; when every response requests a tool call, process returns the
\* exhausted message after exactly MAX_ITERATIONS calls.
C8_IterationBound ==
    turn.kind = "process" =>
        /\ gen_calls <= MAX_ITERATIONS
        /\ apc = "generate" => gen_calls < MAX_ITERATIONS
        /\ apc = "tools" => gen_calls = iteration + 1
        /\ outcome = "exhausted" => (gen_calls = MAX_ITERATIONS /\ apc = "done")
        /\ (apc = "done" /\ gen_calls > 0 /\ iteration = gen_calls)
              => (outcome = "exhausted" /\ gen_calls = MAX_ITERATIONS)

C8_Witness ==
    /\ turn.kind = "process"
    /\ apc = "done"
    /\ outcome = "exhausted"
    /\ gen_calls = MAX_ITERATIONS
    /\ iteration = MAX_ITERATIONS

\* C9: after any number of turns, each ending in a final answer, an error or
\* iteration exhaustion, len(history) <= maxHistory and the retained entries are
\* the most recent ones in their original order.
C9_HistoryBounded ==
    apc \in {"idle", "done"} =>
        /\ Len(history) <= MaxHistory
        /\ history = LastN(appended, Len(history))

\* the registry at the time a call of the pass was executed: the registry of
\* construction, or the present one when register_tool has run since
RegistriesOfPass == {DefaultTools, tools}

\* what executing the tool call tc may have returned
ResultsOf(tc) == {execute_tool(reg, tc.name, tc.arguments) : reg \in RegistriesOfPass}

\* C10: the Tool messages appended for the tool calls of one model turn are in the
\* order of the tool-call list and the i-th carries the result of the i-th call,
\* whatever the order in which the executions completed.
C10_ToolMessageOrder ==
    (turn.kind \in {"process", "stream"} /\ tool_calls # <<>> /\ apc # "tools") =>
        LET n == Len(tool_calls)
            base == Len(messages) - n
        IN /\ base >= 1
           /\ messages[base].role = "assistant"
           /\ Len(messages[base].tool_calls) = n
           /\ \A i \in 1..n :
                 /\ messages[base + i].role = "tool"
                 /\ messages[base + i].tool_call_id = tool_calls[i].id
                 /\ messages[base + i].name = tool_calls[i].name
                 /\ results[i] \in ResultsOf(tool_calls[i])
                 /\ messages[base + i].str = ToolResult_str(results[i])

C10_Witness ==
    /\ turn.kind = "process"
    /\ apc = "generate"
    /\ iteration = 1
    /\ Len(tool_calls) = 2
    /\ completed = <<2, 1>>
    /\ tool_calls[1].name = "system_control"
    /\ tool_calls[2].name = "code_runner"
    /\ messages[Len(messages) - 1].str = <<"Opened Chrome">>
    /\ messages[Len(messages)].str = <<"Error: ", "missing required argument: 'code'">>

\* the tool calls of the response in flight as _extract_tool_calls returned them
Extracted == extract_tool_calls(turn.script).value

\* the turn is past the normalization of a response's tool calls
Normalized == turn.kind \in {"process", "stream"} /\ tool_calls # <<>>

\* the Tool messages of the last tool-call pass are in the outbound list
ToolMessagesAppended == Normalized /\ apc # "tools"

\* the Assistant message of the last tool-call pass and the Tool messages after
\* it agree on the ids, position by position
ToolMessagesReferenceIds ==
    LET n == Len(tool_calls)
        base == Len(messages) - n
    IN /\ base >= 1
       /\ messages[base].role = "assistant"
       /\ Len(messages[base].tool_calls) = n
       /\ \A i \in 1..n :
             /\ messages[base].tool_calls[i].id = tool_calls[i].id
             /\ messages[base + i].role = "tool"
             /\ messages[base + i].tool_call_id = messages[base].tool_calls[i].id

\* C11 as stated: after normalization every tool call has a non-empty id, the
\* ids of the turn are pairwise distinct, and the Tool messages reference
\* exactly those ids, position by position.
C11_UniqueIds ==
    /\ Normalized =>
          /\ \A i \in 1..Len(tool_calls) : tool_calls[i].id # <<>>
          /\ \A i, j \in 1..Len(tool_calls) :
                i # j => tool_calls[i].id # tool_calls[j].id
    /\ ToolMessagesAppended => ToolMessagesReferenceIds

\* C11 amended: after normalization every tool call has a non-empty id; an id
\* the provider supplied is kept as it is and a call that lacked one has a
\* generated id that no other call of the turn has, so the ids are pairwise
\* distinct whenever the supplied ones are; the Tool messages reference exactly
\* those ids, position by position.
C11_IdsAssigned ==
    /\ Normalized =>
          /\ Len(tool_calls) = Len(Extracted)
          /\ \A i \in 1..Len(tool_calls) :
                /\ tool_calls[i].id # <<>>
                /\ Extracted[i].id # <<>> => tool_calls[i].id = Extracted[i].id
          /\ \A i, j \in 1..Len(tool_calls) :
                (i # j /\ tool_calls[i].id = tool_calls[j].id)
                    => (Extracted[i].id # <<>> /\ Extracted[j].id = Extracted[i].id)
    /\ ToolMessagesAppended => ToolMessagesReferenceIds

\* a response in the OpenAI shape whose calls carry no id has been normalized
\* and answered by Tool messages
C11_Witness ==
    /\ ToolMessagesAppended
    /\ turn.script.shape = "openai"
    /\ Len(tool_calls) = 2
    /\ \A i \in 1..2 : Extracted[i].id = <<>> /\ tool_calls[i].id # <<>>
    /\ tool_calls[1].id # tool_calls[2].id
    /\ messages[Len(messages)].tool_call_id = tool_calls[2].id

\* the call names a tool that is not registered, or a tool whose execute raises
ToolFailsIn(reg, tc) ==
    \/ tc.name \notin ToolNames(reg)
    \/ ToolBehaviour(ToolNamed(reg, tc.name), tc.arguments).raises
ToolFails(tc) == ToolFailsIn(tools, tc)

\* gather has just returned: as many passes are complete as calls were made
JustGathered == ToolMessagesAppended /\ gen_calls = iteration

\* C12: a tool call naming an unregistered tool, or a tool whose execute raises,
\* yields a failed ToolResult and no exception: when all executions of a pass
\* have completed, every tool call of the pass, the siblings of a failed one
\* included, gets exactly one Tool message, and the loop goes on to its next
\* pass (the next Router.generate call while passes remain).
C12_ToolFailureContained ==
    [][(turn.kind \in {"process", "stream"} /\ apc = "tools" /\ pending = {}
        /\ apc' # "tools") =>
          LET n == Len(tool_calls)
              base == Len(messages)
          IN /\ \A i \in 1..n :
                   ToolFails(tool_calls[i]) =>
                       (~results[i].success /\ results[i].error # ""
                        /\ results[i].output = "")
             /\ Len(messages') = base + n
             /\ SubSeq(messages', 1, base) = messages
             /\ \A i \in 1..n :
                   /\ messages'[base + i].role = "tool"
                   /\ messages'[base + i].name = tool_calls[i].name
                   /\ ToolFails(tool_calls[i]) =>
                          Head(messages'[base + i].str) = "Error: "
                   /\ ~ToolFailsIn(DefaultTools, tool_calls[i]) =>
                          messages'[base + i].str = <<"Opened Chrome">>
             /\ outcome' \in {"none", "exhausted"}
             /\ iteration' = iteration + 1
             /\ iteration' < MAX_ITERATIONS => apc' = "generate"
             /\ iteration' = MAX_ITERATIONS =>
                   apc' = (IF turn.kind = "process" THEN "done" ELSE "streaming")
      ]_vars

\* an unregistered tool and a registered one were requested together; both have
\* their Tool message and the loop is at its next Router.generate call
C12_Witness ==
    /\ JustGathered
    /\ turn.kind = "process"
    /\ apc = "generate"
    /\ Len(tool_calls) = 2
    /\ tool_calls[1].name \notin ToolNames(tools)
    /\ messages[Len(messages) - 1].str = <<"Error: ", "Tool not found">>
    /\ messages[Len(messages)].str = <<"Opened Chrome">>

\* the arguments of a raw tool call are malformed: the field is absent or null,
\* or it is not a JSON text that decodes to a mapping
Malformed(raw_call) ==
    \/ raw_call.arguments = Missing
    \/ raw_call.arguments.py # "str"
    \/ json_loads(raw_call.arguments).raises # ""
    \/ json_loads(raw_call.arguments).value.py # "dict"

\* the turn ended in its except clause because of the exception e
AbortedBy(e) ==
    /\ outcome = "error"
    /\ history # <<>>
    /\ history[Len(history)].str \in {ErrorMessageFor(e), StreamErrorMessageFor(e)}

\* C13: when the arguments of a tool call in the OpenAI shape are malformed,
\* extraction gives that call an empty argument map and the turn is not
\* aborted: the call and its siblings are executed and the loop continues.
C13_MalformedArgsDegrade ==
    (turn.kind \in {"process", "stream"} /\ turn.script.shape = "openai") =>
        /\ ~AbortedBy(TypeErrorText)
        /\ Normalized =>
              \A i \in 1..Len(tool_calls) :
                 Malformed(turn.script.calls[i]) => tool_calls[i].arguments = Dict({})

\* the outbound lists of the turn's Router.generate calls, the one in flight
\* included
Sent ==
    [k \in 1..Len(outbound) |-> outbound[k].messages]
    \o (IF apc = "generate" THEN <<messages>> ELSE <<>>)

\* the outbound list of a turn's first call: system message, RAG system message
\* if a context was given, then the last MaxHistory entries of the history,
\* the last of which is the turn's User message
FirstOutbound(msgs) ==
    LET h == turn.before \o <<Message_user(UserText(turns))>>
        tail == IF Len(h) > MaxHistory THEN SubSeq(h, Len(h) - MaxHistory + 1, Len(h)) ELSE h
        rag == IF turn.rag # "" THEN 1 ELSE 0
    IN /\ Len(msgs) = 1 + rag + Len(tail)
       /\ msgs[1] = Message_system
       /\ rag = 1 => (msgs[2].role = "system" /\ msgs[2].str = <<"RAG_CONTEXT_PROMPT", turn.rag>>)
       /\ \A i \in 1..Len(tail) : msgs[1 + rag + i] = tail[i]
       /\ msgs[Len(msgs)] = Message_user(UserText(turns))

\* cur is prev followed by an Assistant message carrying the tool-call
\* descriptors and one Tool message per call with the rendered result
NextOutbound(prev, cur) ==
    LET n == Len(cur) - Len(prev) - 1
        a == Len(prev) + 1
    IN /\ n >= 1
       /\ n = Len(Extracted)
       /\ SubSeq(cur, 1, Len(prev)) = prev
       /\ cur[a].role = "assistant"
       /\ Len(cur[a].tool_calls) = n
       /\ \A i \in 1..n :
             /\ cur[a].tool_calls[i].name = Extracted[i].name
             /\ cur[a].tool_calls[i].type = "function"
             /\ cur[a + i].role = "tool"
             /\ cur[a + i].tool_call_id = cur[a].tool_calls[i].id
             /\ cur[a + i].name = Extracted[i].name
             /\ cur[a + i].str \in
                   {ToolResult_str(r) : r \in ResultsOf(Extracted[i])}

\* C14: in process, the outbound list of the Router.generate call that follows a
\* tool-call pass is the previous call's outbound list (system message, optional
\* RAG system message, the last maxHistory history entries ending with the
\* turn's User message) followed, in order, by the Assistant message with the
\* tool-call descriptors and one Tool message per call with the rendered result;
\* when the model then requests no tool, the turn ends after exactly that second
\* Router call with a final text.
C14_OutboundLists ==
    turn.kind = "process" =>
        /\ Len(Sent) >= 1 => FirstOutbound(Sent[1])
        /\ \A k \in 2..Len(Sent) : NextOutbound(Sent[k - 1], Sent[k])
        /\ \A k \in 1..Len(outbound) : outbound[k].tools
        /\ outcome = "final" =>
              /\ apc = "done"
              /\ gen_calls = iteration + 1
              /\ Len(outbound) = gen_calls
              /\ reply = AnswerText(turns)
              /\ history # <<>> => history[Len(history)] = Message_assistant(reply)

\* a turn with a RAG context: one tool call, then a final answer after the
\* second call, whose outbound list ends with the Tool message "Opened Chrome"
C14_Witness ==
    /\ turn.kind = "process"
    /\ turn.rag # ""
    /\ outcome = "final"
    /\ gen_calls = 2
    /\ Len(outbound) = 2
    /\ Len(outbound[2].messages) = Len(outbound[1].messages) + 2
    /\ outbound[2].messages[Len(outbound[2].messages)].role = "tool"
    /\ outbound[2].messages[Len(outbound[2].messages)].str = <<"Opened Chrome">>
    /\ outbound[2].messages[Len(outbound[2].messages) - 1].role = "assistant"

\* C15: when Router.generate fails in pass k of process, the agent does not
\* retry: the failed call is the last Router.generate call of the turn, no
\* further pass is started, and process returns an apologetic message to its
\* caller (which is also what the history receives) instead of raising.
C15_NoRetry ==
    (turn.kind = "process" /\ outcome = "error") =>
        /\ apc = "done"
        /\ gen_calls = iteration + 1
        /\ Len(outbound) = gen_calls
        /\ gen_calls <= MAX_ITERATIONS
        /\ reply \in {ErrorMessageFor(AllFailedText), ErrorMessageFor(TypeErrorText)}
        /\ history # <<>> => history[Len(history)] = Message_assistant(reply)

\* Router.generate failed in the third pass, after two passes with tool calls
C15_Witness ==
    /\ turn.kind = "process"
    /\ outcome = "error"
    /\ reply = ErrorMessageFor(AllFailedText)
    /\ gen_calls = 3
    /\ iteration = 2
    /\ apc = "done"

\* no clear_history call has emptied the history since the turn started
Undisturbed == ~turn.cleared

\* a step of the turn in flight, as opposed to a clear_history or register_tool
\* call made meanwhile
TurnStep == turn.kind # "none" /\ turn' = turn /\ apc' # apc

\* Router.generate raised AllProvidersFailedError into a process turn, which
\* has ended
FailedTurn ==
    /\ turn.kind = "process"
    /\ outcome = "error"
    /\ reply = ErrorMessageFor(AllFailedText)

\* what a failed turn leaves of the history and of the router state
FailedTurnFrame ==
    /\ (FailedTurn /\ Undisturbed) =>
          /\ IsPrefix(turn.before, history)
          /\ history = turn.before \o <<Message_user(UserText(turns)),
                                         Message_assistant(reply)>>
    /\ FailedTurn => rpc = "idle"
    /\ turn.kind = "process" =>
          /\ RouterState = turn.router
          /\ (rpc = "raised" => /\ result = AllProvidersFailedError
                                /\ (Undisturbed => IsPrefix(turn.before, history)))

\* C16: a process turn in which Router.generate raises AllProvidersFailed leaves
\* the history and the router state intact for the next turn: the entries that
\* were in the history before the turn are still there, in place and unaltered
\* (followed by the turn's User message and the error message), and the
\* router's provider map, failover order and current provider and model are
\* what they were when the turn started, with the router ready for a new call;
\* no step of the turn removes an entry from the history or changes the tool
\* registry. (What the history holds is compared with the history before the
\* turn as long as no clear_history call has emptied it meanwhile.)
C16_FailedTurnFrame ==
    /\ []FailedTurnFrame
    /\ [][(turn.kind = "process" /\ TurnStep) =>
             /\ tools' = tools
             /\ outcome' = "error" => IsPrefix(history, history')]_vars

\* a turn failed after every provider was tried, with a history of earlier
\* entries behind it
C16_Witness ==
    /\ FailedTurn
    /\ apc = "done"
    /\ Len(turn.before) = MaxHistory
    /\ Len(history) = MaxHistory + 2
    /\ current_provider = "groq"

\* C17: when process ends by exhausting MAX_ITERATIONS, the exhausted message
\* is returned but not appended to the history: the history after the turn is
\* the history before the turn plus the turn's User message only (unless a
\* clear_history call has emptied it meanwhile), and the exhausted message is in
\* no entry of it.
C17_ExhaustedNotAppended ==
    (turn.kind = "process" /\ outcome = "exhausted") =>
        /\ apc = "done"
        /\ reply = ExhaustedMessage
        /\ Undisturbed => history = Append(turn.before, Message_user(UserText(turns)))
        /\ \A i \in 1..Len(history) : history[i].str # ExhaustedMessage

\* a turn that started with earlier entries in the history has run out of passes
C17_Witness ==
    /\ turn.kind = "process"
    /\ outcome = "exhausted"
    /\ iteration = MAX_ITERATIONS
    /\ turn.before # <<>>
    /\ Undisturbed
    /\ Len(history) = Len(turn.before) + 1
    /\ reply = ExhaustedMessage

\* the concatenation of a sequence of texts
RECURSIVE Concat(_)
Concat(ts) == IF ts = <<>> THEN <<>> ELSE Head(ts) \o Concat(Tail(ts))

\* the history a turn leaves when its only writes are the User message and one
\* Assistant message, trimmed to the bound
HistoryWithAnswer(text) ==
    LET h == turn.before \o <<Message_user(UserText(turns)), Message_assistant(text)>>
    IN  IF Len(h) > MaxHistory THEN SubSeq(h, Len(h) - MaxHistory + 1, Len(h)) ELSE h

\* C18: in stream_process the final answer is forwarded chunk by chunk and the
\* history receives no Assistant entry for the turn while the tool loop runs or
\* chunks are being forwarded; only when Router.stream is exhausted is exactly
\* one Assistant message appended, whose content is the concatenation of all
\* forwarded chunks in order. (The history is compared with the history before
\* the turn as long as no clear_history call has emptied it meanwhile; its last
\* entry is the turn's User message, then the answer, in any case.)
C18_AppendAfterStream ==
    turn.kind = "stream" =>
        /\ apc \in {"generate", "tools", "streaming", "yielded"} =>
              /\ Undisturbed => history = Append(turn.before, Message_user(UserText(turns)))
              /\ history # <<>> => history[Len(history)] = Message_user(UserText(turns))
              /\ full_response = Concat(forwarded)
              /\ \A i \in 1..Len(forwarded) : forwarded[i] # <<>>
        /\ outcome = "streamed" =>
              /\ apc = "done"
              /\ full_response = Concat(forwarded)
              /\ Undisturbed => history = HistoryWithAnswer(Concat(forwarded))
              /\ history # <<>> =>
                    history[Len(history)] = Message_assistant(Concat(forwarded))

\* two chunks were forwarded and the stream has completed
C18_Witness ==
    /\ turn.kind = "stream"
    /\ outcome = "streamed"
    /\ Len(forwarded) = 2
    /\ forwarded[1] # forwarded[2]
    /\ history[Len(history)].role = "assistant"
    /\ history[Len(history)].str = forwarded[1] \o forwarded[2]

\* a process_with_image turn for an image file that exists
ImageTurn == turn.kind = "image" /\ outcome # "image_not_found"

\* the outbound list of process_with_image: the system message and one
\* multimodal User message (a text part and an image part)
ImageOutbound(msgs) ==
    /\ Len(msgs) = 2
    /\ msgs[1] = Message_system
    /\ msgs[2].role = "user"
    /\ msgs[2].is_list
    /\ msgs[2].parts = <<TextPart(UserText(turns)), ImagePart>>

\* C19: process_with_image bypasses the tool loop: for an existing image file
\* it makes exactly one Router.generate call per turn, with an outbound list
\* made of the system message and a single multimodal User message and with no
\* tool schemas, and it executes no tool whatever the response contains; the
\* call is routed to the vision tier model of the current provider.
C19_ImageBypassesLoop ==
    ImageTurn =>
        /\ gen_calls <= 1
        /\ Len(outbound) = gen_calls
        /\ apc = "done" <=> gen_calls = 1
        /\ apc \in {"generate", "done"}
        /\ iteration = 0
        /\ tool_calls = <<>> /\ results = <<>> /\ pending = {} /\ completed = <<>>
        /\ ImageOutbound(messages)
        /\ \A k \in 1..Len(outbound) :
              /\ ImageOutbound(outbound[k].messages)
              /\ ~outbound[k].tools
              /\ outbound[k].auto_route
        /\ rpc # "idle" =>
              /\ call.kind = "generate"
              /\ call.messages = messages
              /\ call.provider = current_provider
              /\ call.model = TIER_MODELS["vision"][current_provider]
              /\ invoked # <<>> =>
                    (invoked[1].provider = current_provider
                     /\ invoked[1].model = TIER_MODELS["vision"][current_provider])

\* the one call of an image turn was answered with a response that carries tool
\* calls, and the turn has ended without executing any
C19_Witness ==
    /\ ImageTurn
    /\ apc = "done"
    /\ outcome = "final"
    /\ gen_calls = 1
    /\ turn.script.calls # <<>>
    /\ extract_tool_calls(turn.script).raises = ""
    /\ tool_calls = <<>>
    /\ current_provider = "groq"

(***************************************************************************)
(* Properties of classify_query                                            *)
(***************************************************************************)
\* the decision list of the classifier, written out on the trimmed text
ExpectedTier(text, has_image) ==
    LET t == strip(text)
        vision == \E i \in 1..Len(t) : t[i] \in VisionWords
        greeting == Len(t) = 1 /\ t[1] \in GreetingWords
        tool == \E i \in 1..Len(t) : t[i] \in ToolWords
        complex == \E i \in 1..Len(t) : t[i] \in ComplexWords
    IN  CASE has_image \/ vision -> "vision"
          [] ~(has_image \/ vision) /\ greeting -> "simple"
          [] ~(has_image \/ vision) /\ ~greeting /\ tool -> "tool"
          [] ~(has_image \/ vision) /\ ~greeting /\ ~tool /\ complex -> "complex"
          [] ~(has_image \/ vision) /\ ~greeting /\ ~tool /\ ~complex
             /\ TextLen(t) > 500 -> "complex"
          [] OTHER -> "normal"

\* C20: classify_query is a total, deterministic decision list where the first
\* match wins: an image or a vision keyword gives vision, else a greeting that
\* is the whole trimmed text gives simple, else a tool keyword gives tool (also
\* next to a complex keyword), else a complex keyword gives complex, else a
\* trimmed text of more than 500 characters gives complex, otherwise normal;
\* the answer is one of the five tiers and depends on the arguments only.
C20_DecisionList ==
    query.asked =>
        /\ tier \in Tiers
        /\ tier = ExpectedTier(query.text, query.has_image)
        /\ \A t \in Texts : classify_query(t, TRUE) = "vision"

\* a text with a tool keyword and a complex keyword has been classified as tool
C20_Witness ==
    /\ query.asked
    /\ ~query.has_image
    /\ \E i \in 1..Len(query.text) : query.text[i] \in ToolWords
    /\ \E i \in 1..Len(query.text) : query.text[i] \in ComplexWords
    /\ tier = "tool"

(***************************************************************************)
(* Properties of the provider adapters' stream                             *)
(***************************************************************************)
FinalChunks(cs) == {i \in 1..Len(cs) : cs[i].is_final}

\* exactly one is_final chunk, and it is the last one
TerminatedByOneFinal(cs) ==
    /\ cs # <<>>
    /\ FinalChunks(cs) = {Len(cs)}

\* C21: every chunk sequence that a provider adapter's stream, and hence
\* Router.stream, completes without error is terminated by exactly one
\* is_final=true chunk: that chunk is the last one, no chunk follows it, and no
\* sequence completes without it.
C21_TerminatedByFinal ==
    spc = "completed" => TerminatedByOneFinal(syielded)

\* what holds of every adapter: at most one final chunk, nothing after it
C21_AtMostOneFinal ==
    /\ Cardinality(FinalChunks(syielded)) <= 1
    /\ FinalChunks(syielded) \subseteq {Len(syielded)}

(***************************************************************************)
(* Properties of the EventBus                                              *)
(***************************************************************************)
HandlersOf(subs) == [k \in 1..Len(subs) |-> subs[k].h]

\* the entries of subs whose handler is not h, in order
EntriesOfOthers(subs, h) ==
    LET keep(e) == e.h # h IN SelectSeq(subs, keep)

\* thread t takes the handlers' snapshot in this step
StartsEmit(t) == emits[t].pc = "stored" /\ emits'[t].pc = "calling"

\* thread t's emit returns in this step
EndsEmit(t) == emits[t].pc = "calling" /\ emits'[t].pc = "idle"

\* what an emit that starts in this step will call: the handlers that have an
\* entry for its type now, one call per entry, in the order of the entries
EmitTakesSubscribed ==
    \A t \in Threads :
        StartsEmit(t) => HandlersOf(emits'[t].snapshot) = HandlersOf(handlers[emits'[t].type])

\* an emit that returns has called the handlers of its snapshot, each entry
\* once, in order
EmitCalledAll ==
    \A t \in Threads : EndsEmit(t) => emits[t].invoked = HandlersOf(emits[t].snapshot)

\* off(type, h) and the unsubscribe function leave no entry of h for the type
\* and keep the other entries, and the other types, as they were
OffRemoves ==
    \A et \in EventTypes, h \in Handlers :
        (HasEntry(et, h) /\ emits' = emits /\ (off(et, h) \/ unsubscribe(et, h))) =>
            /\ ~HasEntry(et, h)'
            /\ handlers'[et] = EntriesOfOthers(handlers[et], h)
            /\ \A o \in EventTypes \ {et} : handlers'[o] = handlers[o]

\* a handler gets an entry for a type only by on or once for that type
OnlySubscribeAdds ==
    \A et \in EventTypes, h \in Handlers :
        (~HasEntry(et, h) /\ HasEntry(et, h)') =>
            (nsubs' = nsubs + 1 /\ (on(et, h) \/ once(et, h)))

\* C22 (original): emit(type) invokes every handler currently subscribed to
\* that type exactly once, in subscription order, and no handler subscribed only
\* to other types.
C22_EachHandlerOnce ==
    \A t \in Threads :
        emits[t].pc = "calling" =>
            \A j, k \in 1..Len(emits[t].invoked) :
                emits[t].invoked[j] = emits[t].invoked[k] => j = k

\* C22 (amended): emit(type), unless a middleware cancels the event, calls the
\* handler of every entry subscribed to that type when it takes its snapshot,
\* once per entry and in subscription order (a handler subscribed twice is
\* called twice), and no handler that has entries only for other types; after
\* off(type, h), or the unsubscribe function returned by on, h has no entry for
\* the type until it is subscribed again, so no emit of that type that starts
\* later calls h, while the other handlers keep their entries and their order.
C22_EmitCallsEntries ==
    [][EmitTakesSubscribed /\ EmitCalledAll /\ OffRemoves /\ OnlySubscribeAdds]_vars

\* an emit is about to return having called the handler subscribed to its
\* type, and not the handler subscribed to the other type only
C22_Witness ==
    \E t \in Threads, o \in EventTypes :
        /\ emits[t].pc = "calling"
        /\ emits[t].i > Len(emits[t].snapshot)
        /\ emits[t].invoked = <<"h1">>
        /\ o # emits[t].type
        /\ HandlersOf(handlers[o]) = <<"h2">>

\* the subscriptions whose handler thread t's emit has called
CalledBy(t) == {emits[t].snapshot[k].n : k \in 1..Len(emits[t].invoked)}

OnceSubscriptions(t) ==
    {emits[t].snapshot[k].n : k \in {j \in 1..Len(emits[t].snapshot) : emits[t].snapshot[j].once}}

\* C27: a handler registered with EventBus.once is invoked at most once over
\* the life of the bus, also when the same event type is emitted again from
\* inside a handler of that emit or concurrently from another thread: no two
\* emits call the handler of the same once subscription.
C27_OnceAtMostOnce ==
    \A t, u \in Threads :
        t # u => CalledBy(t) \cap CalledBy(u) \cap OnceSubscriptions(t) = {}

\* C28: a synchronous handler that raises during EventBus.emit is contained:
\* the exception does not leave emit, and the handlers subscribed after it are
\* still called for that event, so that emit returns to its caller normally.
C28_HandlerExceptionContained ==
    \A t \in Threads :
        /\ emits[t].pc # "raised"
        /\ emits[t].pc = "calling" =>
              /\ Len(emits[t].invoked) = emits[t].i - 1
              /\ \A k \in 1..Len(emits[t].invoked) :
                    emits[t].invoked[k] = emits[t].snapshot[k].h

\* an emit has called a handler that raised and then the handler after it
C28_Witness ==
    \E t \in Threads :
        /\ emits[t].pc = "calling"
        /\ emits[t].invoked = <<"h2", "h1">>
        /\ Raises("h2")

(***************************************************************************)
(* Properties of Conversation and ConversationManager                      *)
(***************************************************************************)
\* C23: after any sequence of new_conversation, switch_to, add_message,
\* delete_conversation and clear_active, active_id is either None or the id of
\* a stored conversation, and it is None exactly when no conversation is
\* stored: new_conversation makes the new conversation active, switch_to an
\* unknown id returns None and leaves active_id unchanged, and deleting the
\* active conversation moves active_id to a remaining conversation or to None.
C23_ActiveIdValid ==
    /\ active_id # None => active_id \in StoredIds
    /\ active_id = None <=> conversations = <<>>
    /\ last_op.op = "new_conversation" =>
          (active_id = last_op.ret /\ last_op.ret # last_op.active_before)
    /\ (last_op.op = "switch_to" /\ ~last_op.known) =>
          (last_op.ret = None /\ active_id = last_op.active_before)
    /\ (last_op.op = "delete_conversation" /\ last_op.known
        /\ last_op.arg = last_op.active_before) =>
          (active_id # last_op.arg /\ active_id \in StoredIds \cup {None})

\* the active conversation was deleted while another one was stored, and that
\* one is active now
C23_Witness ==
    /\ last_op.op = "delete_conversation"
    /\ last_op.known
    /\ last_op.arg = last_op.active_before
    /\ Len(conversations) = 1
    /\ active_id = conversations[1].id

\* C24: Conversation.from_dict(c.to_dict()) preserves all fields of c: id,
\* title, model, provider, created_at, updated_at, the number and order of
\* messages, and for each message its role, content, name, tool_calls and
\* tool_call_id.
C24_RoundTrip ==
    restored # <<>> =>
        /\ restored[1].restored.id = restored[1].original.id
        /\ restored[1].restored.title = restored[1].original.title
        /\ restored[1].restored.model = restored[1].original.model
        /\ restored[1].restored.provider = restored[1].original.provider
        /\ restored[1].restored.created_at = restored[1].original.created_at
        /\ restored[1].restored.updated_at = restored[1].original.updated_at
        /\ Len(restored[1].restored.messages) = Len(restored[1].original.messages)
        /\ \A k \in 1..Len(restored[1].original.messages) :
              LET a == restored[1].original.messages[k]
                  b == restored[1].restored.messages[k]
              IN /\ b.role = a.role
                 /\ b.str = a.str /\ b.is_list = a.is_list /\ b.parts = a.parts
                 /\ b.name = a.name
                 /\ b.tool_calls = a.tool_calls
                 /\ b.tool_call_id = a.tool_call_id


\* the Tool messages of the last tool-call pass are the tail of the outbound
\* list, one per call of the pass
LastPassAppended ==
    LET n == Len(tool_calls)
        base == Len(messages) - n
    IN /\ base >= 1
       /\ messages[base].role = "assistant"
       /\ Len(messages[base].tool_calls) = n
       /\ \A i \in 1..n :
             /\ messages[base + i].role = "tool"
             /\ messages[base + i].tool_call_id = tool_calls[i].id
             /\ messages[base + i].str = ToolResult_str(results[i])
             /\ results[i].error # "pending"

\* C25: in process and in stream_process, the Router.generate call of iteration
\* N+1 never starts before every tool execution of iteration N has completed and
\* all Tool messages of iteration N are in the outbound list: while executions
\* run no further call has been made, and a call after a tool-call pass finds no
\* execution pending and the pass's Tool messages at the end of its list.
C25_SequentialLoop ==
    turn.kind \in {"process", "stream"} =>
        /\ apc = "tools" =>
              /\ gen_calls = iteration + 1
              /\ Len(outbound) = iteration + 1
        /\ (apc = "generate" /\ iteration > 0) =>
              /\ pending = {}
              /\ \A i \in 1..Len(tool_calls) : \E k \in 1..Len(completed) : completed[k] = i
              /\ LastPassAppended
        /\ \A k \in 2..Len(outbound) :
              /\ Len(outbound[k].messages) > Len(outbound[k - 1].messages)
              /\ outbound[k].messages[Len(outbound[k].messages)].role = "tool"

\* a stream_process turn about to make its third call, after a pass of two tool
\* calls that completed in reverse order
C25_Witness ==
    /\ turn.kind = "stream"
    /\ apc = "generate"
    /\ iteration = 2
    /\ gen_calls = 2
    /\ Len(tool_calls) = 2
    /\ completed = <<2, 1>>
    /\ pending = {}


\* C26: stream_process runs the same bounded loop as process: a turn makes at
\* most MAX_ITERATIONS Router.generate calls, and once the model has requested
\* tool calls in every one of them the turn is over with the terminal exhausted
\* response, not with a streamed model answer.
C26_StreamExhausted ==
    turn.kind = "stream" =>
        /\ gen_calls <= MAX_ITERATIONS
        /\ iteration = MAX_ITERATIONS =>
              /\ apc = "done"
              /\ outcome = "exhausted"
              /\ forwarded = <<>>


\* a process, stream_process or process_with_image call begins
TurnStarts == turn.kind = "none" /\ turn'.kind # "none"

\* the step appends exactly one message, of the given role, to the history
AppendsOne(role) ==
    /\ Len(appended') = Len(appended) + 1
    /\ SubSeq(appended', 1, Len(appended)) = appended
    /\ appended'[Len(appended')].role = role
    /\ history' # <<>>
    /\ history'[Len(history')] = appended'[Len(appended')]

\* the history holds User and Assistant messages without tool calls only
OnlyUserAndAssistant ==
    \A i \in 1..Len(history) :
       /\ history[i].role \in {"user", "assistant"}
       /\ history[i].tool_calls = <<>>
       /\ history[i].tool_call_id = <<>>

\* within a turn the history is written once at most, by the step that ends the
\* turn, and what is appended is one Assistant message; clear_history empties it
WritesAfterStart ==
    (~TurnStarts /\ appended' # appended) =>
        \/ (appended' = <<>> /\ history' = <<>>)
        \/ /\ turn.kind # "none"
           /\ turn' = turn
           /\ apc # "done"
           /\ apc' = "done"
           /\ AppendsOne("assistant")

\* C29 as stated: the history holds only User and Assistant messages without
\* tool_calls, and every process, stream_process and process_with_image call
\* adds exactly one User message and at most one Assistant message to it.
C29_EveryTurnAddsUser ==
    /\ []OnlyUserAndAssistant
    /\ [][(TurnStarts => AppendsOne("user")) /\ WritesAfterStart]_vars

\* C29, amended: the history holds only User and Assistant messages without
\* tool_calls; the Assistant tool-call messages and the Tool messages exist only
\* in the turn's outbound list; every turn adds exactly one User message and at
\* most one Assistant message, except a process_with_image call whose image file
\* does not exist, which adds nothing.
C29_HistoryRoles ==
    /\ []OnlyUserAndAssistant
    /\ [][/\ TurnStarts =>
               IF turn'.kind = "image" /\ outcome' = "image_not_found"
               THEN appended' = appended /\ history' = history
               ELSE AppendsOne("user")
          /\ WritesAfterStart]_vars

\* a stream_process turn that resolved a tool call and streamed its answer: the
\* outbound list holds the Assistant tool-call message and the Tool message, the
\* history the User message and the answer
C29_Witness ==
    /\ turn.kind = "stream"
    /\ apc = "done"
    /\ outcome = "streamed"
    /\ iteration = 1
    /\ \E i \in 1..Len(messages) : messages[i].role = "tool"
    /\ \E i \in 1..Len(messages) : messages[i].tool_calls # <<>>
    /\ Len(history) = 2
    /\ history[1].role = "user"
    /\ history[2].role = "assistant"


(***************************************************************************)
(* Properties of the timers                                                *)
(***************************************************************************)
\* C30: after cancel_timer has removed a timer from the active timers, the
\* background thread of that timer never delivers its completion notification:
\* a thread has notified only if cancel_timer did not remove its timer while it
\* slept and its timer was still active when its countdown ended.
C30_CancelledNeverNotifies ==
    \A k \in 1..Len(timer_threads) :
       timer_threads[k].pc = "done" =>
          /\ ~timer_threads[k].cancelled
          /\ timer_threads[k].found

====
